---- MODULE Spec2Model ----
(***************************************************************************)
(* Model of the struct extractor (extractor.py) and of the allocator       *)
(* generator (allocator_gen.py) of CParser.                                *)
(*                                                                         *)
(* Strings are modelled as sequences of tokens: a token is a word that     *)
(* contains neither a blank nor a pointer marker, or one of the separators *)
(* " ", "*", "[]" and "_".  The string operations of the code (count,      *)
(* strip, replace, regular-expression substitution) act on these tokens.   *)
(***************************************************************************)
EXTENDS Integers, Sequences, FiniteSets, TLC

VARIABLES
    src,                             \* the top-level declarations of the source text
    tu,                              \* the cursors of the translation unit, in pre-order
    pc,                              \* position of the run
    struct_decl_hash_to_identifier,  \* extractor.py:159
    struct_fields_map,               \* extractor.py:158
    name_to_struct,                  \* extractor.py:160, a dict in insertion order
    pointer_to_struct,               \* extractor.py:161, a dict in insertion order
    parts,                           \* allocator_gen.py:109, the generated text
    call,                            \* the allocator call that the generated code is run on
    stack,                           \* the active allocator calls of that run
    heap,                            \* the objects allocated by that run
    log,                             \* the allocator calls completed by that run
    raw_key,                         \* allocator_gen.py:28, the argument of a clean_key call
    cleaned_key,                     \* allocator_gen.py:36, what that call returned
    cmd,                             \* a command-line run: the entry point and what it finds
    stdout,                          \* what that run has printed on standard output
    status,                          \* how that run ended
    functions,                       \* function_call_writer.py:7, the signature table
    output,                          \* function_call_writer.py:15, the lines of the driver
    compile_db,                      \* main.py:139, the token lists of the entries kept
    clang_arguments,                 \* main.py:144, the flags for extract_structs
    includes,                        \* the files on disk: the names each one includes
    clean_stack,                     \* the active calls of CodeCleaner.clean_file
    processed_includes,              \* code_cleaner.py:68
    cleaned                          \* how many times each file has been cleaned

evars == <<src, tu, pc, struct_decl_hash_to_identifier, struct_fields_map,
           name_to_struct, pointer_to_struct>>

avars == <<parts, call, stack, heap, log>>

kvars == <<raw_key, cleaned_key>>

cvars == <<cmd, stdout, status>>

\* the variables of the extractor and of the generator, pc apart
bvars == <<src, tu, struct_decl_hash_to_identifier, struct_fields_map,
           name_to_struct, pointer_to_struct, parts, call, stack, heap, log>>

dvars == <<functions, output>>

fvars == <<compile_db, clang_arguments>>

ivars == <<includes, clean_stack, processed_includes, cleaned>>

\* the variables that the extractor and the generator do not have
ovars == <<kvars, cvars, dvars, fvars, ivars>>

\* the variables that a clean_key call leaves alone
nvars == <<bvars, cvars, dvars, fvars, ivars>>

\* the variables that a command-line run leaves alone
crest == <<bvars, kvars, dvars, fvars, ivars>>

vars == <<src, tu, pc, struct_decl_hash_to_identifier, struct_fields_map,
          name_to_struct, pointer_to_struct, parts, call, stack, heap, log,
          raw_key, cleaned_key, cmd, stdout, status, functions, output,
          compile_db, clang_arguments, includes, clean_stack,
          processed_includes, cleaned>>

\* no clean_key call
KIdle ==
    raw_key = <<>> /\ cleaned_key = <<>>

\* no command-line run
CIdle ==
    cmd = <<>> /\ stdout = <<>> /\ status = ""

\* no driver
DIdle ==
    functions = <<>> /\ output = <<>>

\* no flags
FIdle ==
    compile_db = <<>> /\ clang_arguments = <<>>

\* no CodeCleaner
IIdle ==
    /\ includes = <<>>
    /\ clean_stack = <<>>
    /\ processed_includes = {}
    /\ cleaned = <<>>

OthersIdle ==
    KIdle /\ CIdle /\ DIdle /\ FIdle /\ IIdle

\* nothing extracted, nothing generated
BIdle ==
    /\ src = <<>>
    /\ tu = <<>>
    /\ struct_decl_hash_to_identifier = <<>>
    /\ struct_fields_map = <<>>
    /\ name_to_struct = <<>>
    /\ pointer_to_struct = <<>>
    /\ parts = <<>>
    /\ call = <<>>
    /\ stack = <<>>
    /\ heap = <<>>
    /\ log = <<>>

----------------------------------------------------------------------------
(* Bounds of the model *)

MaxDecls ==
    3

----------------------------------------------------------------------------
(* Python dicts: a sequence of <<key, value>> pairs in insertion order *)

DictKeys(d) ==
    {d[i][1] : i \in DOMAIN d}

DictHas(d, k) ==
    \E i \in DOMAIN d : d[i][1] = k

DictGet(d, k) ==
    d[CHOOSE i \in DOMAIN d : d[i][1] = k][2]

DictSet(d, k, v) ==
    IF DictHas(d, k)
    THEN [i \in DOMAIN d |-> IF d[i][1] = k THEN <<k, v>> ELSE d[i]]
    ELSE Append(d, <<k, v>>)

----------------------------------------------------------------------------
(* The source text: what the parser is given *)

Tags ==
    {"A", "U"}

TypedefNames ==
    <<"A", "T", "V", "W">>

Scalar(words) ==
    [b |-> "scalar", words |-> words]

TagRef(tag) ==
    [b |-> "tag", tag |-> tag]

AliasRef(name) ==
    [b |-> "alias", name |-> name]

Inline(tag, un, fields) ==
    [b |-> "inline", tag |-> tag, un |-> un, fields |-> fields]

TypeSpec(base, stars, shape) ==
    [base |-> base, stars |-> stars, shape |-> shape]

FieldSpec(base, stars, shape, name) ==
    [type |-> TypeSpec(base, stars, shape), name |-> name]

\* int x;
FieldsX ==
    <<FieldSpec(Scalar(<<"int">>), 0, "plain", "x")>>

\* struct A* next; char* b; int arr[2]; struct A* tab[2]; int (*pa)[2];
\* struct I { int x; } in; struct { int x; } an; unsigned int : 2; struct U** pp;
FieldsMixed ==
    <<FieldSpec(TagRef("A"), 1, "plain", "next"),
      FieldSpec(Scalar(<<"char">>), 1, "plain", "b"),
      FieldSpec(Scalar(<<"int">>), 0, "array", "arr"),
      FieldSpec(TagRef("A"), 1, "array", "tab"),
      FieldSpec(Scalar(<<"int">>), 0, "ptrarray", "pa"),
      FieldSpec(Inline("I", FALSE, FieldsX), 0, "plain", "in"),
      FieldSpec(Inline("", FALSE, FieldsX), 0, "plain", "an"),
      FieldSpec(Scalar(<<"unsigned", " ", "int">>), 0, "plain", ""),
      FieldSpec(TagRef("U"), 2, "plain", "pp")>>

FieldMenu ==
    {FieldsX, FieldsMixed}

IsUnionTag(tag) ==
    tag = "U"

RecordItem(base) ==
    [it |-> "record", base |-> base]

TypedefItem(name, type) ==
    [it |-> "typedef", name |-> name, type |-> type]

\* a function whose body declares one typedef of an aggregate that file
\* scope has defined before: void f<n>(void) { typedef <type> <name>; }
FunctionItem(name, type) ==
    [it |-> "function", name |-> name, type |-> type]

ItemBase(item) ==
    IF item.it = "record" THEN item.base ELSE item.type.base

RECURSIVE BaseInlineTags(_)
RECURSIVE FieldsInlineTags(_, _)
\* the tags that a type specifier defines (with a body), nested ones included
BaseInlineTags(b) ==
    IF b.b = "inline"
    THEN (IF b.tag = "" THEN {} ELSE {b.tag}) \cup FieldsInlineTags(b.fields, 1)
    ELSE {}

FieldsInlineTags(fields, i) ==
    IF i > Len(fields) THEN {}
    ELSE BaseInlineTags(fields[i].type.base) \cup FieldsInlineTags(fields, i + 1)

RECURSIVE BaseAliasRefs(_)
RECURSIVE FieldsAliasRefs(_, _)
\* the typedef names that a type specifier uses
BaseAliasRefs(b) ==
    CASE b.b = "alias" -> {b.name}
      [] b.b = "inline" -> FieldsAliasRefs(b.fields, 1)
      [] OTHER -> {}

FieldsAliasRefs(fields, i) ==
    IF i > Len(fields) THEN {}
    ELSE BaseAliasRefs(fields[i].type.base) \cup FieldsAliasRefs(fields, i + 1)

\* the tag that a type specifier refers to without defining it
BaseTagRefs(b) ==
    IF b.b = "tag" THEN {b.tag} ELSE {}

DefinedTags(s) ==
    UNION {BaseInlineTags(ItemBase(s[i])) : i \in DOMAIN s}

DeclaredAliases(s) ==
    {s[i].name : i \in {j \in DOMAIN s : s[j].it = "typedef"}}

\* item may follow the declarations s in a well-formed C translation unit
ValidItem(s, item) ==
    /\ BaseInlineTags(ItemBase(item)) \cap DefinedTags(s) = {}
    /\ BaseAliasRefs(ItemBase(item)) \subseteq DeclaredAliases(s)
    /\ item.it = "typedef" => item.name \notin DeclaredAliases(s)
    /\ item.it = "function" => BaseTagRefs(item.type.base) \subseteq DefinedTags(s)

ValidSource(s) ==
    \A i \in DOMAIN s : ValidItem(SubSeq(s, 1, i - 1), s[i])

NextTypedefName(s) ==
    TypedefNames[Cardinality(DeclaredAliases(s)) + 1]

\* the typedef name declared last in s
LastAlias(s) ==
    {TypedefNames[n] : n \in {Cardinality(DeclaredAliases(s))} \ {0}}

\* the types that a typedef may declare after the declarations s
TypedefTypes(s) ==
    {TypeSpec(TagRef("A"), n, "plain") : n \in {0, 1, 2}}
        \cup {TypeSpec(TagRef("U"), 1, "plain")}
        \cup {TypeSpec(b, n, "plain") :
                 b \in {Inline("", FALSE, FieldsX)} \cup {AliasRef(a) : a \in LastAlias(s)},
                 n \in {0, 1}}

\* declarations that widen the inputs: a typedef whose name has an
\* underscore, and a function whose body declares a typedef named like the
\* first typedef of file scope
UnderscoredName ==
    "struct_A"

MoreItemsAfter(s) ==
    {TypedefItem(UnderscoredName, TypeSpec(TagRef("A"), n, "plain")) :
        n \in {0, 1}}
        \cup {FunctionItem(TypedefNames[1], TypeSpec(TagRef("A"), n, "plain")) :
                 n \in {0, 1}}

ItemsAfter(s) ==
    {RecordItem(TagRef("A"))}
        \cup {RecordItem(Inline("A", FALSE, f)) : f \in FieldMenu}
        \cup {RecordItem(Inline("U", TRUE, FieldsX))}
        \cup {TypedefItem(NextTypedefName(s), t) : t \in TypedefTypes(s)}

----------------------------------------------------------------------------
(* The parser oracle (libclang): cursors and types.                        *)
(* A cursor's hash is its pre-order index in tu; parent 0 is the root.     *)

NoType ==
    [k |-> "none"]

Cursor(kind, spelling, is_definition, parent, type) ==
    [kind |-> kind, spelling |-> spelling, is_definition |-> is_definition,
     parent |-> parent, type |-> type]

RecordKind(isUnion) ==
    IF isUnion THEN "UNION_DECL" ELSE "STRUCT_DECL"

IsRecordDecl(c) ==
    c.kind = "STRUCT_DECL" \/ c.kind = "UNION_DECL"

BuiltinType(words) ==
    [k |-> "BUILTIN", spelling |-> words]

\* a RECORD type names its aggregate: by tag, or by the cursor of the
\* definition when the aggregate has no tag
RecordType(tag, anon) ==
    [k |-> "RECORD", tag |-> tag, anon |-> anon]

ElaboratedType(named) ==
    [k |-> "ELABORATED", named |-> named]

PointerType(pointee) ==
    [k |-> "POINTER", pointee |-> pointee]

ArrayType(element) ==
    [k |-> "CONSTANTARRAY", element_type |-> element]

TypedefType(name, underlying) ==
    [k |-> "TYPEDEF", spelling |-> name, underlying |-> underlying]

RECURSIVE Pointers(_, _)
Pointers(t, n) ==
    IF n = 0 THEN t ELSE Pointers(PointerType(t), n - 1)

\* the type a declarator gives to a name: T *...* x, T *...* x[N], T *...* (*x)[N]
DeclaredType(baseType, spec) ==
    CASE spec.shape = "plain" -> Pointers(baseType, spec.stars)
      [] spec.shape = "array" -> ArrayType(Pointers(baseType, spec.stars))
      [] spec.shape = "ptrarray" -> PointerType(ArrayType(Pointers(baseType, spec.stars)))

\* the typedef of file scope that a name at file scope denotes
TypedefCursorOf(cursors, name) ==
    cursors[CHOOSE i \in DOMAIN cursors :
                /\ cursors[i].kind = "TYPEDEF_DECL"
                /\ cursors[i].spelling = name
                /\ cursors[i].parent = 0]

RECURSIVE ParseBase(_, _, _)
RECURSIVE ParseFields(_, _, _, _)
\* parses a type specifier below cursor parent: the cursors it declares are
\* appended to cursors; ty is the type it denotes
ParseBase(cursors, b, parent) ==
    CASE b.b = "scalar" ->
            [cursors |-> cursors, ty |-> BuiltinType(b.words)]
      [] b.b = "tag" ->
            LET declared == \E i \in DOMAIN cursors :
                                IsRecordDecl(cursors[i]) /\ cursors[i].spelling = b.tag
                implicit == Cursor(RecordKind(IsUnionTag(b.tag)), b.tag, FALSE, parent, NoType)
            IN  [cursors |-> IF declared THEN cursors ELSE Append(cursors, implicit),
                 ty |-> ElaboratedType(RecordType(b.tag, 0))]
      [] b.b = "alias" ->
            [cursors |-> cursors, ty |-> TypedefCursorOf(cursors, b.name).type]
      [] b.b = "inline" ->
            LET h == Len(cursors) + 1
                decl == Cursor(RecordKind(b.un), b.tag, TRUE, parent, NoType)
            IN  [cursors |-> ParseFields(Append(cursors, decl), b.fields, h, 1),
                 ty |-> ElaboratedType(RecordType(b.tag, IF b.tag = "" THEN h ELSE 0))]

ParseFields(cursors, fields, parent, i) ==
    IF i > Len(fields) THEN cursors
    ELSE LET r == ParseBase(cursors, fields[i].type.base, parent)
             field == Cursor("FIELD_DECL", fields[i].name, TRUE, parent,
                             DeclaredType(r.ty, fields[i].type))
         IN  ParseFields(Append(r.cursors, field), fields, parent, i + 1)

ParseItem(cursors, item) ==
    IF item.it = "record"
    THEN IF item.base.b = "tag"
         THEN Append(cursors, Cursor(RecordKind(IsUnionTag(item.base.tag)),
                                     item.base.tag, FALSE, 0, NoType))
         ELSE ParseBase(cursors, item.base, 0).cursors
    ELSE IF item.it = "typedef"
    THEN LET r == ParseBase(cursors, item.type.base, 0)
         IN  Append(r.cursors,
                    Cursor("TYPEDEF_DECL", item.name, TRUE, 0,
                           TypedefType(item.name, DeclaredType(r.ty, item.type))))
    ELSE LET f == Len(cursors) + 1
             body == cursors \o << Cursor("FUNCTION_DECL", "f" \o ToString(f), TRUE, 0, NoType),
                                   Cursor("COMPOUND_STMT", "", FALSE, f, NoType),
                                   Cursor("DECL_STMT", "", FALSE, f + 1, NoType) >>
             r == ParseBase(body, item.type.base, f + 2)
         IN  Append(r.cursors,
                    Cursor("TYPEDEF_DECL", item.name, TRUE, f + 2,
                           TypedefType(item.name, DeclaredType(r.ty, item.type))))

RECURSIVE ParseItems(_, _, _)
ParseItems(cursors, s, i) ==
    IF i > Len(s) THEN cursors
    ELSE ParseItems(ParseItem(cursors, s[i]), s, i + 1)

\* Index.create().parse(...).cursor, flattened in pre-order
Parse(s) ==
    ParseItems(<<>>, s, 1)

\* cursor.get_children(): the cursors directly below cursor h, in source order
Children(cursors, h) ==
    SelectSeq([i \in DOMAIN cursors |-> i], LAMBDA i : cursors[i].parent = h)

\* Type.get_declaration() of a RECORD type: the definition of the aggregate
\* when the translation unit has one, else its first declaration
GetDeclaration(cursors, t) ==
    IF t.tag = "" THEN t.anon
    ELSE LET decls == {i \in DOMAIN cursors :
                          IsRecordDecl(cursors[i]) /\ cursors[i].spelling = t.tag}
             defs == {i \in decls : cursors[i].is_definition}
         IN  IF defs # {} THEN CHOOSE i \in defs : \A j \in defs : i <= j
             ELSE CHOOSE i \in decls : \A j \in decls : i <= j

RECURSIVE GetCanonical(_)
\* Type.get_canonical(): the type with every typedef and elaboration removed
GetCanonical(t) ==
    CASE t.k = "TYPEDEF" -> GetCanonical(t.underlying)
      [] t.k = "ELABORATED" -> GetCanonical(t.named)
      [] t.k = "POINTER" -> PointerType(GetCanonical(t.pointee))
      [] t.k = "CONSTANTARRAY" -> ArrayType(GetCanonical(t.element_type))
      [] OTHER -> t

----------------------------------------------------------------------------
(* extractor.py *)

RECURSIVE PtrDepthLoop(_, _)
PtrDepthLoop(depth, current_type) ==
    LET canonical_form == GetCanonical(current_type)
    IN  IF canonical_form.k = "POINTER"
        THEN PtrDepthLoop(depth + 1, canonical_form.pointee)
        ELSE <<depth, canonical_form>>

\* _ptr_depth(t): (pointer depth, ultimate canonical non-pointer type)
PtrDepth(t) ==
    PtrDepthLoop(0, t)

AnonName(decl_hash) ==
    "anon_" \o ToString(decl_hash)

RECURSIVE TypeToStr(_, _, _)
\* _type_to_str_revised(t, struct_decl_hash_to_identifier)
TypeToStr(cursors, t, h2i) ==
    CASE t.k = "POINTER" -> TypeToStr(cursors, t.pointee, h2i) \o <<"*">>
      [] t.k = "CONSTANTARRAY" -> TypeToStr(cursors, t.element_type, h2i) \o <<"[]">>
      [] t.k = "RECORD" ->
            LET decl == GetDeclaration(cursors, t)
                identifier == IF decl \in DOMAIN h2i THEN h2i[decl]
                              ELSE IF cursors[decl].spelling # ""
                                   THEN cursors[decl].spelling
                                   ELSE "unresolved_anon_" \o ToString(decl)
            IN  <<"struct", " ", identifier>>
      [] t.k = "TYPEDEF" -> <<t.spelling>>
      [] t.k = "ELABORATED" -> TypeToStr(cursors, t.named, h2i)
      [] OTHER -> t.spelling

RECURSIVE PrescanFrom(_, _, _)
PrescanFrom(cursors, i, h2i) ==
    IF i > Len(cursors) THEN h2i
    ELSE IF IsRecordDecl(cursors[i])
         THEN PrescanFrom(cursors, i + 1,
                  (i :> (IF cursors[i].spelling # "" THEN cursors[i].spelling
                         ELSE AnonName(i))) @@ h2i)
         ELSE PrescanFrom(cursors, i + 1, h2i)

\* prescan_struct_identifiers_recursive(tu.cursor)
PrescanStructIdentifiers(cursors) ==
    PrescanFrom(cursors, 1, <<>>)

RECURSIVE IsBelow(_, _, _)
IsBelow(cursors, c, h) ==
    IF cursors[c].parent = 0 THEN FALSE
    ELSE cursors[c].parent = h \/ IsBelow(cursors, cursors[c].parent, h)

CurrentFieldsOfSubtree(cursors, h, h2i) ==
    LET fieldCursors == SelectSeq([i \in DOMAIN cursors |-> i],
                                  LAMBDA c : /\ cursors[c].kind = "FIELD_DECL"
                                             /\ IsBelow(cursors, c, h))
    IN  [j \in DOMAIN fieldCursors |->
            <<TypeToStr(cursors, cursors[fieldCursors[j]].type, h2i),
              cursors[fieldCursors[j]].spelling>>]

\* extractor.py:190-197, the (type_string, field_name) pairs of the FIELD_DECL
\* children of cursor h
CurrentFields(cursors, h, h2i) ==
    LET fieldCursors == SelectSeq(Children(cursors, h),
                                  LAMBDA c : cursors[c].kind = "FIELD_DECL")
    IN  [j \in DOMAIN fieldCursors |->
            <<TypeToStr(cursors, cursors[fieldCursors[j]].type, h2i),
              cursors[fieldCursors[j]].spelling>>]

StructKey(spelling) ==
    <<"struct", " ", spelling>>

\* extractor.py:183, the cursors whose fields pass 2 records
IsCollectedAnyDeclaration(c) ==
    IsRecordDecl(c)

IsCollected(c) ==
    IsRecordDecl(c) /\ c.is_definition

\* extractor.py:201, the aggregates that get a key of their own
HasTagKeyAlways(c) ==
    TRUE

HasTagKey(c) ==
    c.spelling # ""

RECURSIVE CollectFrom(_, _, _, _)
\* acc = [fields |-> struct_fields_map, names |-> name_to_struct]
CollectFrom(cursors, i, h2i, acc) ==
    IF i > Len(cursors) THEN acc
    ELSE IF IsCollected(cursors[i])
         THEN LET struct_identifier == h2i[i]
                  current_fields == CurrentFields(cursors, i, h2i)
              IN  CollectFrom(cursors, i + 1, h2i,
                      [fields |-> (struct_identifier :> current_fields) @@ acc.fields,
                       names |-> IF HasTagKey(cursors[i])
                                 THEN DictSet(acc.names, StructKey(cursors[i].spelling),
                                              current_fields)
                                 ELSE acc.names])
         ELSE CollectFrom(cursors, i + 1, h2i, acc)

\* collect_struct_definitions_recursive(tu.cursor)
CollectStructDefinitions(cursors, h2i) ==
    CollectFrom(cursors, 1, h2i, [fields |-> <<>>, names |-> <<>>])

\* extractor.py:232-238, the map that takes an alias of pointer depth ptr_depth
AliasMapAnyPointer(ptr_depth) ==
    IF ptr_depth = 0 THEN "name_to_struct" ELSE "pointer_to_struct"

AliasMap(ptr_depth) ==
    CASE ptr_depth = 0 -> "name_to_struct"
      [] ptr_depth = 1 -> "pointer_to_struct"
      [] OTHER -> "none"

VisibleFieldsSoFar(cursors, i, h2i, fmap) ==
    LET seen == {h2i[h] : h \in {c \in DOMAIN h2i : c < i /\ IsCollected(cursors[c])}}
    IN  [identifier \in DOMAIN fmap \cap seen |-> fmap[identifier]]

\* extractor.py:211-229, the struct_fields_map that pass 3 reads at cursor i:
\* pass 2 has visited the whole tree before pass 3 starts
VisibleFields(cursors, i, h2i, fmap) ==
    fmap

RECURSIVE TypedefsFrom(_, _, _, _, _)
\* acc = [names |-> name_to_struct, pointers |-> pointer_to_struct]
TypedefsFrom(cursors, i, h2i, fmap, acc) ==
    IF i > Len(cursors) THEN acc
    ELSE IF cursors[i].kind = "TYPEDEF_DECL"
         THEN LET alias_name == <<cursors[i].spelling>>
                  pd == PtrDepth(cursors[i].type)
                  ptr_depth == pd[1]
                  ultimate_base_type == pd[2]
                  resolved ==
                      /\ ultimate_base_type.k = "RECORD"
                      /\ GetDeclaration(cursors, ultimate_base_type) \in DOMAIN h2i
                      /\ h2i[GetDeclaration(cursors, ultimate_base_type)]
                             \in DOMAIN VisibleFields(cursors, i, h2i, fmap)
                  fields == fmap[h2i[GetDeclaration(cursors, ultimate_base_type)]]
              IN  TypedefsFrom(cursors, i + 1, h2i, fmap,
                      IF resolved /\ AliasMap(ptr_depth) = "name_to_struct"
                      THEN [acc EXCEPT !.names = DictSet(@, alias_name, fields)]
                      ELSE IF resolved /\ AliasMap(ptr_depth) = "pointer_to_struct"
                      THEN [acc EXCEPT !.pointers = DictSet(@, alias_name, fields)]
                      ELSE acc)
         ELSE TypedefsFrom(cursors, i + 1, h2i, fmap, acc)

\* process_typedefs_recursive(tu.cursor)
ProcessTypedefs(cursors, h2i, fmap, names) ==
    TypedefsFrom(cursors, 1, h2i, fmap, [names |-> names, pointers |-> <<>>])

----------------------------------------------------------------------------
(* The run of extract_structs *)

EInit ==
    /\ src = <<>>
    /\ tu = <<>>
    /\ pc = "input"
    /\ struct_decl_hash_to_identifier = <<>>
    /\ struct_fields_map = <<>>
    /\ name_to_struct = <<>>
    /\ pointer_to_struct = <<>>
    /\ parts = <<>>
    /\ call = <<>>
    /\ stack = <<>>
    /\ heap = <<>>
    /\ log = <<>>
    /\ OthersIdle

\* the environment writes one more top-level declaration of the source file
Declare ==
    /\ pc = "input"
    /\ Len(src) < MaxDecls
    /\ \E item \in ItemsAfter(src) :
           /\ ValidItem(src, item)
           /\ src' = Append(src, item)
    /\ UNCHANGED <<tu, pc, struct_decl_hash_to_identifier, struct_fields_map,
                   name_to_struct, pointer_to_struct>>
    /\ UNCHANGED <<avars, ovars>>

\* tu = Index.create().parse(source, ...)
ParseSource ==
    /\ pc = "input"
    /\ tu' = Parse(src)
    /\ pc' = "parsed"
    /\ UNCHANGED <<src, struct_decl_hash_to_identifier, struct_fields_map,
                   name_to_struct, pointer_to_struct>>
    /\ UNCHANGED <<avars, ovars>>

Prescan ==
    /\ pc = "parsed"
    /\ struct_decl_hash_to_identifier' = PrescanStructIdentifiers(tu)
    /\ pc' = "prescanned"
    /\ UNCHANGED <<src, tu, struct_fields_map, name_to_struct, pointer_to_struct>>
    /\ UNCHANGED <<avars, ovars>>

Collect ==
    /\ pc = "prescanned"
    /\ LET r == CollectStructDefinitions(tu, struct_decl_hash_to_identifier)
       IN  /\ struct_fields_map' = r.fields
           /\ name_to_struct' = r.names
    /\ pc' = "collected"
    /\ UNCHANGED <<src, tu, struct_decl_hash_to_identifier, pointer_to_struct>>
    /\ UNCHANGED <<avars, ovars>>

Typedefs ==
    /\ pc = "collected"
    /\ LET r == ProcessTypedefs(tu, struct_decl_hash_to_identifier,
                                struct_fields_map, name_to_struct)
       IN  /\ name_to_struct' = r.names
           /\ pointer_to_struct' = r.pointers
    /\ pc' = "extracted"
    /\ UNCHANGED <<src, tu, struct_decl_hash_to_identifier, struct_fields_map>>
    /\ UNCHANGED <<avars, ovars>>

\* extract_structs(source) as a function of the source text
ExtractStructs(s) ==
    LET cursors == Parse(s)
        h2i == PrescanStructIdentifiers(cursors)
        collected == CollectStructDefinitions(cursors, h2i)
    IN  ProcessTypedefs(cursors, h2i, collected.fields, collected.names)

----------------------------------------------------------------------------
(* What the source text says, read off the declarations themselves *)

RECURSIVE BaseInlines(_)
RECURSIVE FieldsInlines(_, _)
\* the aggregate definitions (type specifiers with a body) inside a specifier
BaseInlines(b) ==
    IF b.b = "inline" THEN {b} \cup FieldsInlines(b.fields, 1) ELSE {}

FieldsInlines(fields, i) ==
    IF i > Len(fields) THEN {}
    ELSE BaseInlines(fields[i].type.base) \cup FieldsInlines(fields, i + 1)

SrcDefinitions(s) ==
    UNION {BaseInlines(ItemBase(s[i])) : i \in DOMAIN s}

SrcDefinitionOf(s, tag) ==
    CHOOSE b \in SrcDefinitions(s) : b.tag = tag

SrcTypedefs(s) ==
    {i \in DOMAIN s : s[i].it = "typedef"}

SrcTypedef(s, name) ==
    s[CHOOSE i \in SrcTypedefs(s) : s[i].name = name]

RECURSIVE SrcDepth(_, _)
\* the pointer levels between a declared type and its ultimate base
SrcDepth(s, spec) ==
    spec.stars + (IF spec.base.b = "alias"
                  THEN SrcDepth(s, SrcTypedef(s, spec.base.name).type)
                  ELSE 0)

RECURSIVE SrcTarget(_, _)
\* the type specifier at the end of a chain of typedefs
SrcTarget(s, spec) ==
    IF spec.base.b = "alias"
    THEN SrcTarget(s, SrcTypedef(s, spec.base.name).type)
    ELSE spec.base

\* the declared type ends in an aggregate that the source defines
TargetDefined(s, spec) ==
    LET b == SrcTarget(s, spec)
    IN  \/ b.b = "inline"
        \/ b.b = "tag" /\ b.tag \in DefinedTags(s)

TargetFields(s, spec) ==
    LET b == SrcTarget(s, spec)
    IN  IF b.b = "inline" THEN b.fields ELSE SrcDefinitionOf(s, b.tag).fields

AnonMark ==
    "anon_?"

RECURSIVE Stars(_)
Stars(n) ==
    IF n = 0 THEN <<>> ELSE <<"*">> \o Stars(n - 1)

\* the type string of a field as the data model describes it: the base type,
\* one * per pointer level, [] for an array
SrcTypeStr(spec) ==
    LET b == spec.base
        base == CASE b.b = "scalar" -> b.words
                  [] b.b = "alias" -> <<b.name>>
                  [] b.b = "tag" -> <<"struct", " ", b.tag>>
                  [] b.b = "inline" ->
                        <<"struct", " ", IF b.tag = "" THEN AnonMark ELSE b.tag>>
    IN  CASE spec.shape = "plain" -> base \o Stars(spec.stars)
          [] spec.shape = "array" -> base \o Stars(spec.stars) \o <<"[]">>
          [] spec.shape = "ptrarray" -> base \o Stars(spec.stars) \o <<"[]", "*">>

SrcFieldList(fields) ==
    [j \in DOMAIN fields |-> <<SrcTypeStr(fields[j].type), fields[j].name>>]

MaskNames(fields, names) ==
    [j \in DOMAIN fields |->
        <<[t \in DOMAIN fields[j][1] |->
              IF fields[j][1][t] \in names THEN AnonMark ELSE fields[j][1][t]],
          fields[j][2]>>]

\* a field list with the synthetic identifiers of untagged aggregates masked
MaskFields(fields, hashes) ==
    MaskNames(fields, {AnonName(h) : h \in hashes})

Masked(d, hashes) ==
    LET names == {AnonName(h) : h \in hashes}
    IN  {<<d[i][1], MaskNames(d[i][2], names)>> : i \in DOMAIN d}

Content(d) ==
    {<<d[i][1], d[i][2]>> : i \in DOMAIN d}

Reorderings(s) ==
    {r \in {[i \in DOMAIN s |-> s[p[i]]] : p \in Permutations(DOMAIN s)} :
        ValidSource(r)}

AllKeys ==
    DictKeys(name_to_struct) \cup DictKeys(pointer_to_struct)

Hashes ==
    DOMAIN tu

----------------------------------------------------------------------------
(* Properties of the extractor *)

UndefinedTags ==
    {tu[h].spelling : h \in {c \in DOMAIN tu : IsRecordDecl(tu[c])}}
        \ (DefinedTags(src) \cup {""})

\* C3: a typedef whose target tag is only forward-declared is a key of
\* neither map, the forward-declared tag adds no key, and both maps are empty
\* when no aggregate is defined.
C3_UndefinedTagsAddNoKey ==
    pc = "extracted" =>
        /\ \A i \in SrcTypedefs(src) :
              LET b == SrcTarget(src, src[i].type)
              IN  (b.b = "tag" /\ b.tag \notin DefinedTags(src))
                      => <<src[i].name>> \notin AllKeys
        /\ \A tag \in UndefinedTags : StructKey(tag) \notin AllKeys
        /\ SrcDefinitions(src) = {} => (name_to_struct = <<>> /\ pointer_to_struct = <<>>)

\* a forward declaration, a value alias and a pointer alias of a tag that is
\* never defined
C3_Witness ==
    /\ pc = "extracted"
    /\ \E i, j \in SrcTypedefs(src), f \in DOMAIN src :
          /\ src[f] = RecordItem(TagRef("A"))
          /\ src[i] = TypedefItem(src[i].name, TypeSpec(TagRef("A"), 0, "plain"))
          /\ src[j] = TypedefItem(src[j].name, TypeSpec(TagRef("A"), 1, "plain"))
    /\ "A" \in UndefinedTags
    /\ name_to_struct = <<>>
    /\ pointer_to_struct = <<>>

AnonymousCursors ==
    {h \in DOMAIN tu : IsRecordDecl(tu[h]) /\ tu[h].spelling = ""}

\* the typedefs whose declared type ends in an untagged aggregate
AnonymousAliases ==
    {i \in SrcTypedefs(src) :
        LET b == SrcTarget(src, src[i].type) IN b.b = "inline" /\ b.tag = ""}

\* C4: an untagged aggregate is reachable only under typedef names: no key is
\* its synthetic identifier, alone or after "struct", nor "struct <alias>";
\* name_to_struct has one key per defined tagged aggregate and one per
\* resolved typedef of pointer depth 0.
C4_AnonymousOnlyByAlias ==
    pc = "extracted" =>
        /\ \A h \in AnonymousCursors :
              /\ <<AnonName(h)>> \notin AllKeys
              /\ StructKey(AnonName(h)) \notin AllKeys
        /\ \A i \in AnonymousAliases :
              StructKey(src[i].name) \in AllKeys => src[i].name \in DefinedTags(src)
        /\ \A k \in AllKeys : k # StructKey("")
        /\ Cardinality(DictKeys(name_to_struct))
               = Cardinality(DefinedTags(src))
                 + Cardinality({i \in SrcTypedefs(src) :
                                   /\ TargetDefined(src, src[i].type)
                                   /\ SrcDepth(src, src[i].type) = 0})

\* typedef struct { int x; } T; is recorded under T alone
C4_Witness ==
    /\ pc = "extracted"
    /\ \E i \in AnonymousAliases :
          /\ src[i].type.stars = 0
          /\ src[i].type.base.b = "inline"
          /\ DictKeys(name_to_struct) = {<<src[i].name>>}
          /\ DictGet(name_to_struct, <<src[i].name>>) = <<<< <<"int">>, "x" >>>>

\* the field specifiers of the definition that a key stands for
KeyFields(key) ==
    IF Len(key) = 3
    THEN SrcDefinitionOf(src, key[3]).fields
    ELSE TargetFields(src, SrcTypedef(src, key[1]).type)

\* C5: the field list under every key has one (type_string, field_name) pair
\* per field declaration of the one definition the key stands for, in
\* declaration order; the fields of a nested definition are not merged into
\* the list of the enclosing aggregate.
C5_FieldListFidelity ==
    pc = "extracted" =>
        /\ \A key \in DictKeys(name_to_struct) :
              MaskFields(DictGet(name_to_struct, key), Hashes)
                  = SrcFieldList(KeyFields(key))
        /\ \A key \in DictKeys(pointer_to_struct) :
              MaskFields(DictGet(pointer_to_struct, key), Hashes)
                  = SrcFieldList(KeyFields(key))

\* an aggregate with two nested definitions and an alias of it are recorded
C5_Witness ==
    /\ pc = "extracted"
    /\ \E i \in SrcTypedefs(src) :
          /\ DictHas(name_to_struct, <<src[i].name>>)
          /\ DictHas(name_to_struct, StructKey("A"))
          /\ DictHas(name_to_struct, StructKey("I"))
          /\ Len(DictGet(name_to_struct, <<src[i].name>>)) = 9
          /\ DictGet(name_to_struct, StructKey("A")) = DictGet(name_to_struct, <<src[i].name>>)
          /\ DictGet(name_to_struct, StructKey("I")) = <<<< <<"int">>, "x" >>>>

\* ---------------------------------------------------------------------------
\* allocator_gen.py: the text utilities.  A string is the sequence of its
\* tokens, a text is the sequence of its lines.
\* ---------------------------------------------------------------------------

\* str.strip()
RECURSIVE Strip(_)
Strip(str) ==
    IF str = <<>> THEN <<>>
    ELSE IF Head(str) = " " THEN Strip(Tail(str))
    ELSE IF str[Len(str)] = " " THEN Strip(SubSeq(str, 1, Len(str) - 1))
    ELSE str

\* re.sub of the pattern \*+$ by the empty string
RECURSIVE StripStars(_)
StripStars(str) ==
    IF str # <<>> /\ str[Len(str)] = "*"
    THEN StripStars(SubSeq(str, 1, Len(str) - 1))
    ELSE str

\* the white space that the pattern \s*\*+$ takes in front of the stars
RECURSIVE StripSpaceRight(_)
StripSpaceRight(str) ==
    IF str # <<>> /\ str[Len(str)] = " "
    THEN StripSpaceRight(SubSeq(str, 1, Len(str) - 1))
    ELSE str

\* str.replace(' ', '_')
Underscored(str) ==
    [i \in DOMAIN str |-> IF str[i] = " " THEN "_" ELSE str[i]]

\* the test: sub in str
Contains(str, sub) ==
    \E i \in DOMAIN str : str[i] = sub

\* the same function without the removal of the trailing stars
clean_keyKeepingStars(key) ==
    Underscored(Strip(key))

clean_key(key) ==
    StripStars(Underscored(Strip(key)))

ptr_depth(type_str) ==
    Cardinality({i \in DOMAIN type_str : type_str[i] = "*"})

\* the base that is_struct_type looks up: a trailing run of stars goes, with
\* the white space in front of it
StructBase(type_str) ==
    IF type_str # <<>> /\ type_str[Len(type_str)] = "*"
    THEN Strip(StripSpaceRight(StripStars(type_str)))
    ELSE Strip(type_str)

is_struct_type(type_str, struct_names) ==
    StructBase(type_str) \in struct_names

\* the base of make_body: its pattern asks for a backslash, which no type
\* string holds, so only strip() acts
BodyBase(f_type) ==
    Strip(f_type)

\* the size of the buffer behind a pointer to an unknown target
BufferSize ==
    128

\* the lines that make_body writes
GuardText ==
    "if(d < max_d - 1) {"

GuardLine ==
    <<GuardText>>

CloseLine ==
    <<"    }">>

PtrCallLine(f_name, callee) ==
    <<"    out->", f_name, " = alloc_">> \o callee \o <<"(d + 1, max_d);">>

\* the same statement without the dereference
ValCallLineNoDeref(f_name, callee) ==
    <<"    out->", f_name, " = alloc_">> \o callee \o <<"(d + 1, max_d);">>

ValCallLine(f_name, callee) ==
    <<"    out->", f_name, " = *alloc_">> \o callee \o <<"(d + 1, max_d);">>

BufAllocLine(f_name) ==
    <<"    out->", f_name, " = tis_alloc_safe(", ToString(BufferSize), ");">>

\* a fill of the instance in place of the buffer
BufFillLineOfInstance(f_name) ==
    <<"    tis_make_unknown(out", ", ", ToString(BufferSize), ");">>

BufFillLine(f_name) ==
    <<"    tis_make_unknown(out->", f_name, ", ", ToString(BufferSize), ");">>

\* ---------------------------------------------------------------------------
\* allocator_gen.py: make_body and generate_allocators
\* ---------------------------------------------------------------------------

\* the first branch of make_body: a single pointer to a known aggregate
\* the same branch, never taken
IsPtrCallFieldNever(f_type, struct_names) ==
    FALSE

IsPtrCallField(f_type, struct_names) ==
    ptr_depth(f_type) = 1 /\ is_struct_type(BodyBase(f_type), struct_names)

\* the second branch: a known aggregate held by value
IsValCallField(f_type, struct_names) ==
    ptr_depth(f_type) = 0 /\ is_struct_type(BodyBase(f_type), struct_names)

\* the third branch: memory of unknown content
IsBufferFieldAnyDepth(f_type, f_name) ==
    ptr_depth(f_type) >= 1 /\ ~Contains(f_type, "[]") /\ ~Contains(<<f_name>>, "[]")

IsBufferField(f_type, f_name) ==
    ptr_depth(f_type) = 1 /\ ~Contains(f_type, "[]") /\ ~Contains(<<f_name>>, "[]")

FieldLines(field, struct_names) ==
    LET f_type == field[1]
        f_name == field[2]
        callee == clean_key(BodyBase(f_type))
    IN  IF IsPtrCallField(f_type, struct_names)
        THEN <<PtrCallLine(f_name, callee)>>
        ELSE IF IsValCallField(f_type, struct_names)
        THEN <<ValCallLine(f_name, callee)>>
        ELSE IF IsBufferField(f_type, f_name)
        THEN <<BufAllocLine(f_name), BufFillLine(f_name)>>
        ELSE <<>>

RECURSIVE FieldsLines(_, _)
FieldsLines(fields, struct_names) ==
    IF fields = <<>> THEN <<>>
    ELSE FieldLines(Head(fields), struct_names) \o FieldsLines(Tail(fields), struct_names)

make_body(fields, struct_names) ==
    <<GuardLine>> \o FieldsLines(fields, struct_names) \o <<CloseLine>>

\* textwrap.indent(body, "    ")
Indent(text) ==
    [i \in DOMAIN text |-> <<"    ">> \o text[i]]

PRELUDE ==
    << <<"//#include <stddef.h>">>,
       <<"//extern void *tis_alloc_safe(size_t);">>,
       <<"//extern void  tis_make_unknown(void*, size_t);">>,
       <<>> >>

Signature(ret_type, fname) ==
    ret_type \o <<" ", "alloc_">> \o fname \o <<"(int d, int max_d)">>

ForwardDecl(ret_type, fname) ==
    << Signature(ret_type, fname) \o <<";">>, <<>> >>

ALLOC_TPL(ret_type, fname, struct_type, body) ==
    << Signature(ret_type, fname),
       <<"{">>,
       <<"    ">> \o struct_type \o <<" out = (">> \o struct_type
           \o <<")tis_alloc_safe(sizeof(*out));">>,
       <<"    tis_make_unknown(out, sizeof(*out));">> >>
    \o body
    \o << <<"    return out;">>, <<"}">>, <<>> >>

\* the same function with the depth raised
WrapperTextDeeper(key, fname, callee) ==
    << Signature(key, fname),
       <<"{">>,
       <<"    return alloc_">> \o callee \o <<"(d + 1, max_d);">>,
       <<"}">>,
       <<>> >>

WrapperText(key, fname, callee) ==
    << Signature(key, fname),
       <<"{">>,
       <<"    return alloc_">> \o callee \o <<"(d, max_d);">>,
       <<"}">>,
       <<>> >>

\* the keys of name_map that hold exactly this field list, in dict order
AliasesOf(name_map, fields) ==
    SelectSeq(name_map, LAMBDA e : e[2] = fields)

\* next() raises StopIteration when no key holds the field list
Raises(name_map, ptr_map) ==
    \E i \in DOMAIN ptr_map : AliasesOf(name_map, ptr_map[i][2]) = <<>>

ValuePart(iter, entry, struct_names) ==
    LET key == entry[1]
        fname == clean_key(key)
        struct_type == key \o <<"*">>
        ret_type == struct_type
        body == make_body(entry[2], struct_names)
    IN  IF iter = 0
        THEN ForwardDecl(ret_type, fname)
        ELSE ALLOC_TPL(ret_type, fname, struct_type, Indent(body))

PointerPart(iter, entry, name_map) ==
    LET key == entry[1]
        fname == clean_key(key)
        target_alias == AliasesOf(name_map, entry[2])[1][1]
        callee == clean_key(target_alias)
    IN  IF iter = 0
        THEN ForwardDecl(key, fname)
        ELSE WrapperText(key, fname, callee)

\* the same parts with the pointer aliases emitted before the value keys
IterPartsPointersFirst(iter, name_map, ptr_map) ==
    [i \in DOMAIN ptr_map |-> PointerPart(iter, ptr_map[i], name_map)]
    \o [i \in DOMAIN name_map |-> ValuePart(iter, name_map[i], DictKeys(name_map))]

IterParts(iter, name_map, ptr_map) ==
    [i \in DOMAIN name_map |-> ValuePart(iter, name_map[i], DictKeys(name_map))]
    \o [i \in DOMAIN ptr_map |-> PointerPart(iter, ptr_map[i], name_map)]

\* the same parts with the definitions emitted by the first iteration
generate_allocatorsDefinitionsFirst(name_map, ptr_map) ==
    <<PRELUDE>> \o IterParts(1, name_map, ptr_map) \o IterParts(0, name_map, ptr_map)

generate_allocators(name_map, ptr_map) ==
    <<PRELUDE>> \o IterParts(0, name_map, ptr_map) \o IterParts(1, name_map, ptr_map)

\* ---------------------------------------------------------------------------
\* The generated C, run on one allocator call.  int is a signed type whose
\* largest value is IntMax; the run keeps the active calls in stack, the
\* allocated objects in heap and the completed calls in log.
\* ---------------------------------------------------------------------------

IntMax ==
    3

IntMin ==
    -IntMax - 1

Ints ==
    IntMin .. IntMax

\* the value of d + 1 where the sum is taken
NextDepth(d) ==
    IF d + 1 > IntMax THEN IntMin ELSE d + 1

\* the arguments (d + 1, max_d) of a call in an allocator body
CalleeArgsShrinking(d, max_d) ==
    <<NextDepth(d), IF max_d = IntMin THEN max_d ELSE max_d - 1>>

CalleeArgs(d, max_d) ==
    <<NextDepth(d), max_d>>

\* the values that d < max_d - 1 can take: when max_d - 1 overflows, the
\* behaviour is undefined, and a build either wraps the difference or
\* compares d + 1 with max_d
GuardOutcomesNoMargin(d, max_d) ==
    {d < max_d}

GuardOutcomes(d, max_d) ==
    IF max_d = IntMin
    THEN {d < IntMax, FALSE}
    ELSE {d < max_d - 1}

\* the function definitions of the generated text
IsDefinitionOf(part, fname) ==
    /\ Len(part) >= 2
    /\ part[2] = <<"{">>
    /\ Len(part[1]) >= Len(fname) + 2
    /\ SubSeq(part[1], Len(part[1]) - Len(fname) - 1, Len(part[1]))
           = <<"alloc_">> \o fname \o <<"(int d, int max_d)">>

DefinitionOf(text, fname) ==
    CHOOSE i \in DOMAIN text :
        /\ IsDefinitionOf(text[i], fname)
        /\ \A j \in 1 .. (i - 1) : ~IsDefinitionOf(text[j], fname)

\* the kinds of statement of an allocator body
IsAllocate(line) ==
    Len(line) >= 1 /\ line[Len(line)] = ")tis_alloc_safe(sizeof(*out));"

IsMakeUnknown(line) ==
    line = <<"    tis_make_unknown(out, sizeof(*out));">>

IsGuard(line) ==
    line = <<"    ">> \o GuardLine

IsClose(line) ==
    line = <<"    ">> \o CloseLine

IsPtrCall(line) ==
    Len(line) >= 5 /\ line[2] = "    out->" /\ line[4] = " = alloc_"

IsValCall(line) ==
    Len(line) >= 5 /\ line[2] = "    out->" /\ line[4] = " = *alloc_"

IsBufAlloc(line) ==
    Len(line) >= 5 /\ line[2] = "    out->" /\ line[4] = " = tis_alloc_safe("

IsBufFill(line) ==
    Len(line) >= 3 /\ line[2] = "    tis_make_unknown(out->"

IsReturn(line) ==
    line = <<"    return out;">>

\* the field and the callee that a statement names
LineField(line) ==
    line[3]

LineCallee(line) ==
    SubSeq(line, 5, Len(line) - 1)

\* the line of the closing brace of the guard
CloseOf(part) ==
    CHOOSE i \in DOMAIN part : IsClose(part[i])

Frame(fn, d, max_d) ==
    [fn |-> fn, d |-> d, max_d |-> max_d, ip |-> 3, out |-> 0,
     guard |-> "unset", calls |-> 0, bufs |-> 0]

Instance(type) ==
    [kind |-> "instance", type |-> type, filled |-> FALSE, fields |-> <<>>]

Buffer(size) ==
    [kind |-> "buffer", size |-> size, filled |-> FALSE, fields |-> <<>>]

\* what the top call is about to execute
Top ==
    stack[Len(stack)]

TopLine ==
    parts[Top.fn][Top.ip]

Running ==
    pc = "running" /\ stack # <<>>

SetTop(frame) ==
    [stack EXCEPT ![Len(stack)] = frame]

\* ---------------------------------------------------------------------------
\* The maps that the generator is given
\* ---------------------------------------------------------------------------

KeyA ==
    StructKey("A")

KeyB ==
    StructKey("B")

KeyT ==
    <<"T">>

\* a list node: struct A { int id; struct A *next; }
FieldsList ==
    << << <<"int">>, "id" >>,
       << KeyA \o <<"*">>, "next" >> >>

\* an owner of other aggregates, of a string and of a callback
FieldsOwner ==
    << << KeyT, "v" >>,
       << KeyT \o <<"*">>, "pt" >>,
       << <<"char", "*">>, "buf" >>,
       << KeyB \o <<"*">>, "pb" >>,
       << <<"int (void)", "*">>, "cb" >> >>

\* fields that are scalars, arrays, or pointers of depth two
FieldsSilent ==
    << << <<"int">>, "n" >>,
       << <<"char", "*", "*">>, "pp" >>,
       << KeyA \o <<"*", "*">>, "ppa" >>,
       << <<"int", "[]">>, "arr" >>,
       << KeyB \o <<"[]">>, "items" >>,
       << <<"char", "*", "[]">>, "strs" >>,
       << <<"int", "[]", "*">>, "pa" >>,
       << KeyA \o <<"*", "[]">>, "tab" >>,
       << <<"pA">>, "alias" >> >>

FieldsBack ==
    << << KeyA \o <<"*">>, "back" >>,
       << <<"char", "*">>, "name" >> >>

FieldsLeaf ==
    << << <<"int">>, "x" >> >>

Entry(key, fields) ==
    << <<key, fields>> >>

NameMaps ==
    { Entry(KeyA, fa) \o b \o t :
        fa \in {FieldsList, FieldsOwner, FieldsSilent},
        b \in {<<>>, Entry(KeyB, FieldsBack)},
        t \in {<<>>, Entry(KeyT, FieldsLeaf)} }

\* the pointer aliases: none, an alias of struct A, or an alias of an
\* aggregate that has the field list of T
PtrMaps(name_map) ==
    IF name_map = Entry(KeyA, FieldsSilent)
    THEN {<<>>, Entry(<<"pA">>, FieldsSilent), Entry(<<"pX">>, FieldsLeaf)}
    ELSE {<<>>}

AInit ==
    /\ src = <<>>
    /\ tu = <<>>
    /\ struct_decl_hash_to_identifier = <<>>
    /\ struct_fields_map = <<>>
    /\ pc = "extracted"
    /\ name_to_struct \in NameMaps
    /\ pointer_to_struct \in PtrMaps(name_to_struct)
    /\ parts = <<>>
    /\ call = <<>>
    /\ stack = <<>>
    /\ heap = <<>>
    /\ log = <<>>
    /\ OthersIdle

\* allocator_gen.py, generate_allocators on the two maps
Generate ==
    /\ pc = "extracted"
    /\ IF Raises(name_to_struct, pointer_to_struct)
       THEN pc' = "failed" /\ parts' = parts
       ELSE pc' = "generated"
            /\ parts' = generate_allocators(name_to_struct, pointer_to_struct)
    /\ UNCHANGED <<src, tu, struct_decl_hash_to_identifier, struct_fields_map,
                   name_to_struct, pointer_to_struct, call, stack, heap, log,
                   ovars>>

\* extract_structs, then generate_allocators on its result
ENext ==
    \/ Declare
    \/ ParseSource
    \/ Prescan
    \/ Collect
    \/ Typedefs
    \/ Generate

ESpec ==
    EInit /\ [][ENext]_vars

\* the environment writes one of the widening declarations
DeclareMore ==
    /\ pc = "input"
    /\ Len(src) < MaxDecls
    /\ \E item \in MoreItemsAfter(src) :
           /\ ValidItem(src, item)
           /\ src' = Append(src, item)
    /\ UNCHANGED <<tu, pc, struct_decl_hash_to_identifier, struct_fields_map,
                   name_to_struct, pointer_to_struct>>
    /\ UNCHANGED <<avars, ovars>>

\* the same program on the widened inputs
BNext ==
    \/ DeclareMore
    \/ ENext

BSpec ==
    EInit /\ [][BNext]_vars

\* a caller runs alloc_K(d, max_d) of the generated text
CallAllocator ==
    /\ pc = "generated"
    /\ \E key \in DictKeys(name_to_struct), d \in Ints, max_d \in Ints :
          /\ call' = <<key, d, max_d>>
          /\ stack' = <<Frame(DefinitionOf(parts, clean_key(key)), d, max_d)>>
    /\ pc' = "running"
    /\ UNCHANGED <<src, tu, struct_decl_hash_to_identifier, struct_fields_map,
                   name_to_struct, pointer_to_struct, parts, heap, log,
                   ovars>>

\* what a call does not touch
fixed == <<src, tu, struct_decl_hash_to_identifier, struct_fields_map,
           name_to_struct, pointer_to_struct, parts, call, ovars>>

\* the type named in: <type> out = (<type>)tis_alloc_safe(sizeof(*out));
AllocatedType(line) ==
    SubSeq(line, 2, (CHOOSE i \in DOMAIN line : line[i] = " out = (") - 1)

\* the object that out->f points to
FieldTarget(object, f_name) ==
    LET set == SelectSeq(object.fields, LAMBDA e : e[1] = f_name)
    IN  set[Len(set)][2].obj

Advance(frame) ==
    [frame EXCEPT !.ip = @ + 1]

\* out = tis_alloc_safe(sizeof(*out))
ExecAllocate ==
    /\ Running /\ IsAllocate(TopLine)
    /\ heap' = Append(heap, Instance(AllocatedType(TopLine)))
    /\ stack' = SetTop([Advance(Top) EXCEPT !.out = Len(heap) + 1])
    /\ UNCHANGED <<fixed, pc, log>>

\* tis_make_unknown(out, sizeof(*out))
ExecMakeUnknown ==
    /\ Running /\ IsMakeUnknown(TopLine)
    /\ heap' = [heap EXCEPT ![Top.out].filled = TRUE]
    /\ stack' = SetTop(Advance(Top))
    /\ UNCHANGED <<fixed, pc, log>>

\* if(d < max_d - 1) {
ExecGuard ==
    /\ Running /\ IsGuard(TopLine)
    /\ \E taken \in GuardOutcomes(Top.d, Top.max_d) :
          stack' = SetTop(IF taken
                          THEN [Advance(Top) EXCEPT !.guard = "taken"]
                          ELSE [Top EXCEPT !.guard = "skipped",
                                           !.ip = CloseOf(parts[Top.fn]) + 1])
    /\ UNCHANGED <<fixed, pc, heap, log>>

\* the call of: out->f = alloc_K(d + 1, max_d);
ExecPtrCall ==
    /\ Running /\ IsPtrCall(TopLine)
    /\ LET args == CalleeArgs(Top.d, Top.max_d)
       IN  stack' = Append(SetTop([Top EXCEPT !.calls = @ + 1]),
                           Frame(DefinitionOf(parts, LineCallee(TopLine)),
                                 args[1], args[2]))
    /\ UNCHANGED <<fixed, pc, heap, log>>

\* the call of: out->f = *alloc_K(d + 1, max_d);
ExecValCall ==
    /\ Running /\ IsValCall(TopLine)
    /\ LET args == CalleeArgs(Top.d, Top.max_d)
       IN  stack' = Append(SetTop([Top EXCEPT !.calls = @ + 1]),
                           Frame(DefinitionOf(parts, LineCallee(TopLine)),
                                 args[1], args[2]))
    /\ UNCHANGED <<fixed, pc, heap, log>>

\* out->f = tis_alloc_safe(128);
ExecBufAlloc ==
    /\ Running /\ IsBufAlloc(TopLine)
    /\ heap' = [Append(heap, Buffer(TopLine[5])) EXCEPT ![Top.out].fields =
                   Append(@, <<LineField(TopLine),
                               [how |-> "ref", obj |-> Len(heap) + 1]>>)]
    /\ stack' = SetTop([Advance(Top) EXCEPT !.bufs = @ + 1])
    /\ UNCHANGED <<fixed, pc, log>>

\* tis_make_unknown(out->f, 128);
ExecBufFill ==
    /\ Running /\ IsBufFill(TopLine)
    /\ heap' = [heap EXCEPT
                   ![FieldTarget(heap[Top.out], LineField(TopLine))].filled = TRUE]
    /\ stack' = SetTop(Advance(Top))
    /\ UNCHANGED <<fixed, pc, log>>

\* the closing brace of the guard
ExecClose ==
    /\ Running /\ IsClose(TopLine)
    /\ stack' = SetTop(Advance(Top))
    /\ UNCHANGED <<fixed, pc, heap, log>>

\* return out; the caller stores the pointer, or a copy of the instance
ExecReturn ==
    /\ Running /\ IsReturn(TopLine)
    /\ log' = Append(log, [fn |-> Top.fn, d |-> Top.d, max_d |-> Top.max_d,
                           guard |-> Top.guard, calls |-> Top.calls,
                           bufs |-> Top.bufs, out |-> Top.out,
                           depth |-> Len(stack)])
    /\ IF Len(stack) = 1
       THEN /\ stack' = <<>>
            /\ pc' = "returned"
            /\ heap' = heap
       ELSE LET caller == stack[Len(stack) - 1]
                line == parts[caller.fn][caller.ip]
                how == IF IsPtrCall(line) THEN "ref" ELSE "copy"
            IN  /\ heap' = [heap EXCEPT ![caller.out].fields =
                               Append(@, <<LineField(line),
                                           [how |-> how, obj |-> Top.out]>>)]
                /\ stack' = Append(SubSeq(stack, 1, Len(stack) - 2), Advance(caller))
                /\ pc' = pc
    /\ UNCHANGED fixed

\* one statement of the running allocator
Step ==
    \/ ExecAllocate
    \/ ExecMakeUnknown
    \/ ExecGuard
    \/ ExecPtrCall
    \/ ExecValCall
    \/ ExecBufAlloc
    \/ ExecBufFill
    \/ ExecClose
    \/ ExecReturn

ANext ==
    \/ Generate
    \/ CallAllocator
    \/ Step

ASpec ==
    AInit /\ [][ANext]_vars

\* a C program that is running executes its next statement
AFairSpec ==
    ASpec /\ WF_vars(Step)

\* ---------------------------------------------------------------------------
\* Claims about the generated allocators
\* ---------------------------------------------------------------------------

\* the text has been generated; no later step changes it
Generated ==
    pc = "generated"

\* the generated text is being run, or has been run
Run ==
    pc \in {"running", "returned"}

Max(a, b) ==
    IF a >= b THEN a ELSE b

\* the definition of alloc_<clean_key(key)> in the generated text
ValueAllocator(key) ==
    parts[DefinitionOf(parts, clean_key(key))]

\* the statements of a definition that name the field f
StatementsOn(part, f) ==
    SelectSeq(part, LAMBDA line :
        /\ Len(line) >= 3
        /\ line[2] \in {"    out->", "    tis_make_unknown(out->"}
        /\ line[3] = f)

\* the key and the declared field types of an allocated instance
InstanceKey(object) ==
    SubSeq(object.type, 1, Len(object.type) - 1)

FieldTypeOf(key, f) ==
    LET fields == DictGet(name_to_struct, key)
    IN  fields[CHOOSE i \in DOMAIN fields : fields[i][2] = f][1]

Instances ==
    {i \in DOMAIN heap : heap[i].kind = "instance"}

\* C6 as stated: nested allocator calls never exceed max(1, max_d - d), for
\* all integers d and max_d.
C6_NestedCallsWithinBudget ==
    pc = "running" => Len(stack) <= Max(1, call[3] - call[2])

\* C6: for every max_d above the least int, so that max_d - 1 is defined,
\* the run of alloc_K(d, max_d) ends, and at no time are more than
\* max(1, max_d - d) allocator calls active.
C6_TerminatesWithinBudget ==
    /\ [](pc = "running" /\ call[3] # IntMin
            => Len(stack) <= Max(1, call[3] - call[2]))
    /\ (pc = "running" /\ call[3] # IntMin) ~> (pc = "returned")

\* a run on mutually referential aggregates has ended after nesting three or
\* more calls, as many as the budget allows
C6_Witness ==
    /\ pc = "returned"
    /\ call[3] # IntMin
    /\ DictGet(name_to_struct, KeyA) = FieldsOwner
    /\ DictHas(name_to_struct, KeyB)
    /\ \E i \in DOMAIN log :
          log[i].depth >= 3 /\ log[i].depth = call[3] - call[2]

\* in a value allocator the fifth line is the guard, one line closes it, and
\* the statements on fields are exactly the lines between the two
OneGuard(part) ==
    LET close == Len(part) - 3
    IN  /\ Len(part) >= 9
        /\ IsAllocate(part[3])
        /\ IsMakeUnknown(part[4])
        /\ IsGuard(part[5])
        /\ IsClose(part[close])
        /\ IsReturn(part[close + 1])
        /\ \A i \in DOMAIN part :
              /\ (IsGuard(part[i]) => i = 5)
              /\ (IsClose(part[i]) => i = close)
              /\ (IsPtrCall(part[i]) \/ IsValCall(part[i])
                    \/ IsBufAlloc(part[i]) \/ IsBufFill(part[i]))
                 <=> (5 < i /\ i < close)

\* what a call has done agrees with its guard
GuardedCall(c) ==
    /\ c.guard # "taken" => (c.calls = 0 /\ c.bufs = 0)
    /\ (c.guard # "unset" /\ c.max_d # IntMin)
          => (c.guard = "skipped" <=> c.d >= c.max_d - 1)

\* C7: every value allocator has all field statements inside one guard
\* d < max_d - 1; a call whose guard fails (d >= max_d - 1) makes no
\* allocator call and allocates no buffer, its instance alone is allocated
\* and filled; a recursive call gets d + 1 and the same max_d.
C7_SingleDepthGuard ==
    /\ Generated => \A key \in DictKeys(name_to_struct) : OneGuard(ValueAllocator(key))
    /\ Run =>
        /\ \A i \in DOMAIN stack : GuardedCall(stack[i])
        /\ \A i \in DOMAIN log :
              /\ GuardedCall(log[i])
              /\ log[i].guard = "skipped"
                    => heap[log[i].out].filled /\ heap[log[i].out].fields = <<>>
        /\ \A i \in 2 .. Len(stack) :
              /\ stack[i].d = stack[i - 1].d + 1
              /\ stack[i].max_d = stack[i - 1].max_d
              /\ stack[i - 1].guard = "taken"

\* a run has ended in which a nested call found the budget used up and a
\* call above it made allocator calls and allocated buffers
C7_Witness ==
    /\ pc = "returned"
    /\ \E i, j \in DOMAIN log :
          /\ log[i].guard = "skipped" /\ log[i].depth >= 2 /\ log[i].d >= log[i].max_d - 1
          /\ log[j].guard = "taken" /\ log[j].calls >= 1 /\ log[j].bufs >= 1

\* the fields of a list whose type is a key, or a key and one star
IsKeyPointer(f_type) ==
    /\ Len(f_type) >= 2
    /\ f_type[Len(f_type)] = "*"
    /\ SubSeq(f_type, 1, Len(f_type) - 1) \in DictKeys(name_to_struct)

IsKeyValue(f_type) ==
    f_type \in DictKeys(name_to_struct)

\* the assignment that C8 gives a field of such a type
RECURSIVE ExpectedCalls(_)
ExpectedCalls(fields) ==
    IF fields = <<>> THEN <<>>
    ELSE LET f_type == Head(fields)[1]
             f_name == Head(fields)[2]
         IN  (IF IsKeyPointer(f_type)
              THEN << <<"    ", "    out->", f_name, " = alloc_">>
                      \o clean_key(SubSeq(f_type, 1, Len(f_type) - 1))
                      \o <<"(d + 1, max_d);">> >>
              ELSE IF IsKeyValue(f_type)
              THEN << <<"    ", "    out->", f_name, " = *alloc_">>
                      \o clean_key(f_type) \o <<"(d + 1, max_d);">> >>
              ELSE <<>>)
             \o ExpectedCalls(Tail(fields))

\* the statements of a definition on the fields that C8 is about
CallStatements(part, fields) ==
    SelectSeq(part, LAMBDA line :
        /\ Len(line) >= 3
        /\ line[2] \in {"    out->", "    tis_make_unknown(out->"}
        /\ \E i \in DOMAIN fields :
              /\ fields[i][2] = line[3]
              /\ IsKeyPointer(fields[i][1]) \/ IsKeyValue(fields[i][1]))

\* what the run has stored in the fields of an instance agrees with C8
StoredAsDeclared(object) ==
    \A i \in DOMAIN object.fields :
        LET f_type == FieldTypeOf(InstanceKey(object), object.fields[i][1])
            value == object.fields[i][2]
        IN  /\ IsKeyPointer(f_type)
                => value.how = "ref" /\ heap[value.obj].kind = "instance"
                   /\ heap[value.obj].type = f_type
            /\ IsKeyValue(f_type)
                => value.how = "copy" /\ heap[value.obj].kind = "instance"
                   /\ heap[value.obj].type = f_type \o <<"*">>

\* C8: for each field of type K*, K a key, the body has the one statement
\* out->f = alloc_<clean_key(K)>(d + 1, max_d); for each field of type K the
\* one statement out->f = *alloc_<clean_key(K)>(d + 1, max_d); no other
\* statement names such a field, and the statements come in field order.
C8_KnownAggregateFields ==
    /\ Generated =>
          \A i \in DOMAIN name_to_struct :
              CallStatements(ValueAllocator(name_to_struct[i][1]), name_to_struct[i][2])
                  = ExpectedCalls(name_to_struct[i][2])
    /\ Run => \A o \in Instances : StoredAsDeclared(heap[o])

\* a run has stored a copy of a T in v and then a pointer to a T in pt
C8_Witness ==
    /\ pc = "returned"
    /\ DictGet(name_to_struct, KeyA) = FieldsOwner
    /\ DictHas(name_to_struct, KeyT)
    /\ call[1] = KeyA
    /\ Len(heap[1].fields) >= 2
    /\ heap[1].fields[1][1] = "v" /\ heap[1].fields[1][2].how = "copy"
    /\ heap[1].fields[2][1] = "pt" /\ heap[1].fields[2][2].how = "ref"
    /\ Len(ExpectedCalls(FieldsOwner)) >= 2

\* the two statements that give a field a buffer of 128 bytes of
\* unspecified content
BufferStatements(f) ==
    << <<"    ", "    out->", f, " = tis_alloc_safe(", "128", ");">>,
       <<"    ", "    tis_make_unknown(out->", f, ", ", "128", ");">> >>

\* a non-array field with the given number of stars, or more, whose target
\* is not a key
IsUnknownPointer(f_type, exact) ==
    /\ IF exact THEN ptr_depth(f_type) = 1 ELSE ptr_depth(f_type) >= 1
    /\ ~Contains(f_type, "[]")
    /\ StripStars(f_type) \notin DictKeys(name_to_struct)

\* every such field of every key has the two statements, and nothing else
BuffersFor(exact) ==
    \A i \in DOMAIN name_to_struct :
        \A j \in DOMAIN name_to_struct[i][2] :
            LET field == name_to_struct[i][2][j]
            IN  IsUnknownPointer(field[1], exact)
                  => StatementsOn(ValueAllocator(name_to_struct[i][1]), field[2])
                        = BufferStatements(field[2])

\* the buffers of a run that has ended have 128 bytes and are filled, and a
\* field that holds one is an unknown pointer
BuffersFilled ==
    pc = "returned" =>
        /\ \A i \in DOMAIN heap :
              heap[i].kind = "buffer" => heap[i].filled /\ heap[i].size = "128"
        /\ \A o \in Instances : \A i \in DOMAIN heap[o].fields :
              heap[heap[o].fields[i][2].obj].kind = "buffer"
                 => /\ heap[o].fields[i][2].how = "ref"
                    /\ IsUnknownPointer(FieldTypeOf(InstanceKey(heap[o]),
                                                    heap[o].fields[i][1]), TRUE)

\* C9 as stated: every non-array field with one or more stars whose target is
\* not a key gets a buffer of 128 bytes that is then filled.
C9_EveryUnknownPointerGetsBuffer ==
    /\ Generated => BuffersFor(FALSE)
    /\ BuffersFilled

\* C9: every field whose type string has exactly one star and no bracket,
\* and whose target is not a key of name_to_struct, gets the statements
\* out->f = tis_alloc_safe(128); tis_make_unknown(out->f, 128); and the run
\* leaves the buffer filled.
C9_SinglePointerGetsBuffer ==
    /\ Generated => BuffersFor(TRUE)
    /\ BuffersFilled

\* a run has given buffers to a string, to a pointer to the unknown T and to
\* a callback
C9_Witness ==
    /\ pc = "returned"
    /\ DictGet(name_to_struct, KeyA) = FieldsOwner
    /\ ~DictHas(name_to_struct, KeyT)
    /\ call[1] = KeyA
    /\ \A f \in {"pt", "buf", "cb"} :
          \E i \in DOMAIN heap[1].fields :
              /\ heap[1].fields[i][1] = f
              /\ heap[heap[1].fields[i][2].obj].kind = "buffer"
              /\ heap[heap[1].fields[i][2].obj].filled

\* the fields that C10 is about
IsSilent(f_type) ==
    \/ ptr_depth(f_type) = 0 /\ f_type \notin DictKeys(name_to_struct)
    \/ Contains(f_type, "[]")
    \/ ptr_depth(f_type) >= 2

DefinitionsOf(fname) ==
    {i \in DOMAIN parts : IsDefinitionOf(parts[i], fname)}

\* the text of a function that only returns alloc_<callee>(d, max_d)
Delegation(ret_type, fname, callee) ==
    << ret_type \o <<" ", "alloc_">> \o fname \o <<"(int d, int max_d)">>,
       <<"{">>,
       <<"    return alloc_">> \o callee \o <<"(d, max_d);">>,
       <<"}">>,
       <<>> >>

\* the keys of name_to_struct that hold the field list of pointer alias P
ValueKeysOf(P) ==
    {K \in DictKeys(name_to_struct) :
        DictGet(name_to_struct, K) = DictGet(pointer_to_struct, P)}

\* C11: for every key P of pointer_to_struct the text defines the function
\* P alloc_<clean_key(P)>, and it is: return alloc_<clean_key(K)>(d, max_d);
\* for a key K of name_to_struct with the field list of P; it passes d and
\* max_d on and has no other statement.
C11_PointerAliasDelegates ==
    Generated =>
        \A P \in DictKeys(pointer_to_struct) :
            \E K \in ValueKeysOf(P) :
                LET returning == {i \in DefinitionsOf(clean_key(P)) :
                                    SubSeq(parts[i][1], 1, Len(P) + 1) = P \o <<" ">>}
                IN  /\ returning # {}
                    /\ \A i \in returning :
                          parts[i] = Delegation(P, clean_key(P), clean_key(K))

\* text was generated for a pointer alias of an untagged aggregate, whose
\* allocator delegates to the allocator of the value alias
C11_Witness ==
    /\ Generated
    /\ \E P \in DictKeys(pointer_to_struct) :
          /\ \A K \in ValueKeysOf(P) : Len(K) = 1
          /\ \E K \in ValueKeysOf(P), i \in DOMAIN parts :
                parts[i] = Delegation(P, clean_key(P), clean_key(K))


\* ---------------------------------------------------------------------------
\* Which aggregate a key denotes, read off the declarations: a tagged
\* aggregate is known by its tag, an untagged one by the declaration that
\* holds its body.

RECURSIVE SrcAggregate(_, _)
SrcAggregate(s, name) ==
    LET i == CHOOSE j \in SrcTypedefs(s) : s[j].name = name
        b == s[i].type.base
    IN  CASE b.b = "alias" -> SrcAggregate(s, b.name)
          [] b.b = "inline" /\ b.tag = "" -> <<"untagged", i>>
          [] OTHER -> <<"tag", b.tag>>

KeyAggregate(key) ==
    IF Len(key) = 3 THEN <<"tag", key[3]>> ELSE SrcAggregate(src, key[1])

\* the keys whose allocator the wrapper of P calls
CalleeKeys(P) ==
    {K \in DictKeys(name_to_struct) :
        \E i \in DOMAIN parts :
            parts[i] = Delegation(P, clean_key(P), clean_key(K))}

\* C12: the wrapper of a pointer alias P calls the allocator of a key that
\* denotes the very aggregate P points to, also when two distinct aggregates
\* of the translation unit have identical field lists.
C12_DelegatesToSameAggregate ==
    Generated =>
        \A P \in DictKeys(pointer_to_struct) :
            \A K \in CalleeKeys(P) : KeyAggregate(K) = KeyAggregate(P)


\* C13: every field list of pointer_to_struct is also the field list of some
\* key of name_to_struct, so the lookup of the wrapper's callee never fails,
\* also for a pointer typedef of an untagged aggregate without a value alias.
C13_EveryPointerAliasHasValueKey ==
    /\ pc # "failed"
    /\ (pc = "extracted" =>
          \A P \in DictKeys(pointer_to_struct) : ValueKeysOf(P) # {})


\* ---------------------------------------------------------------------------
\* The layout of the generated text.

\* the return type of the allocator of a key of name_to_struct (value) or of
\* pointer_to_struct
ReturnType(key, value) ==
    IF value THEN key \o <<"*">> ELSE key

IsForwardDeclOf(part, key, value) ==
    part = << Signature(ReturnType(key, value), clean_key(key)) \o <<";">>, <<>> >>

IsDefinitionOfKey(part, key, value) ==
    /\ Len(part) >= 4
    /\ part[1] = Signature(ReturnType(key, value), clean_key(key))
    /\ part[2] = <<"{">>
    /\ part[Len(part) - 1] = <<"}">>

\* the entries of the two maps: a key and whether name_to_struct holds it
Entries ==
    {<<key, TRUE>> : key \in DictKeys(name_to_struct)}
        \cup {<<key, FALSE>> : key \in DictKeys(pointer_to_struct)}

ForwardDeclsOf(en) ==
    {i \in DOMAIN parts : IsForwardDeclOf(parts[i], en[1], en[2])}

DefinitionsOfKey(en) ==
    {i \in DOMAIN parts : IsDefinitionOfKey(parts[i], en[1], en[2])}

ForwardDecls ==
    UNION {ForwardDeclsOf(en) : en \in Entries}

Definitions ==
    UNION {DefinitionsOfKey(en) : en \in Entries}

\* C14: the text starts with the prelude; then comes one forward declaration
\* per key of each of the two maps, then one definition per key; every
\* forward declaration stands before every definition, and nothing else is
\* emitted.
C14_PreludeDeclarationsDefinitions ==
    Generated =>
        /\ parts[1] = PRELUDE
        /\ \A en \in Entries :
              /\ Cardinality(ForwardDeclsOf(en)) = 1
              /\ Cardinality(DefinitionsOfKey(en)) = 1
        /\ \A i \in ForwardDecls, j \in Definitions : 1 < i /\ i < j
        /\ ForwardDecls \cup Definitions = (DOMAIN parts) \ {1}

\* a text with the allocators of two value keys and of one pointer alias
C14_Witness ==
    /\ Generated
    /\ Cardinality(DictKeys(name_to_struct)) = 2
    /\ Cardinality(DictKeys(pointer_to_struct)) = 1
    /\ Cardinality(ForwardDecls) = 3
    /\ Cardinality(Definitions) = 3
    /\ Len(parts) = 7


\* ---------------------------------------------------------------------------
\* clean_key as a function of its own: one call on a string of at most
\* MaxKeyLen tokens.

MaxKeyLen ==
    5

KeyTokens ==
    {" ", "*", "struct", "union", "A", "Foo", "Bar", "pBaz"}

Keys ==
    UNION {[1 .. n -> KeyTokens] : n \in 0 .. MaxKeyLen}

KInit ==
    /\ raw_key \in Keys
    /\ cleaned_key = <<>>
    /\ pc = "key"
    /\ BIdle
    /\ CIdle /\ DIdle /\ FIdle /\ IIdle

\* cleaned_key = clean_key(raw_key)
CleanKey ==
    /\ pc = "key"
    /\ cleaned_key' = clean_key(raw_key)
    /\ pc' = "cleaned"
    /\ UNCHANGED <<nvars, raw_key>>

KNext ==
    CleanKey

KSpec ==
    KInit /\ [][KNext]_vars

\* C15: clean_key trims the white space and the trailing stars, removes the
\* leading tag keyword and replaces the inner white space:
\* 'struct Foo**' gives 'Foo', ' Bar * ' gives 'Bar', 'pBaz' gives 'pBaz',
\* and the allocator of the key `struct A` is named alloc_A.
C15_CleanKeyAsDocumented ==
    pc = "cleaned" =>
        /\ raw_key = <<"struct", " ", "Foo", "*", "*">> => cleaned_key = <<"Foo">>
        /\ raw_key = <<" ", "Bar", " ", "*", " ">> => cleaned_key = <<"Bar">>
        /\ raw_key = <<"pBaz">> => cleaned_key = <<"pBaz">>
        /\ raw_key = <<"struct", " ", "A">> =>
              <<"alloc_">> \o cleaned_key = <<"alloc_", "A">>


\* ---------------------------------------------------------------------------
\* The character string that a sequence of tokens spells.

RECURSIVE Text(_)
Text(str) ==
    IF str = <<>> THEN "" ELSE Head(str) \o Text(Tail(str))

Extracted ==
    pc \in {"extracted", "generated", "failed"}

\* C16: over the keys that one extraction emits (tag keys `struct T` and
\* typedef names), clean_key is injective: two distinct keys never get the
\* same allocator name.
C16_CleanKeyInjective ==
    Extracted =>
        \A k1 \in AllKeys, k2 \in AllKeys :
            Text(clean_key(k1)) = Text(clean_key(k2)) => Text(k1) = Text(k2)


\* ---------------------------------------------------------------------------
\* The allocators that the generated text calls.

IsDelegate(line) ==
    Len(line) >= 3 /\ line[1] = "    return alloc_" /\ line[Len(line)] = "(d, max_d);"

IsFieldCall(line) ==
    (IsPtrCall(line) \/ IsValCall(line)) /\ line[Len(line)] = "(d + 1, max_d);"

\* the allocator names called by the statements of a part
Callees(part) ==
    {LineCallee(part[l]) : l \in {k \in DOMAIN part : IsFieldCall(part[k])}}
        \cup {SubSeq(part[l], 2, Len(part[l]) - 1) :
                 l \in {k \in DOMAIN part : IsDelegate(part[k])}}

IsForwardDeclNamed(part, fname) ==
    /\ Len(part) = 2
    /\ Len(part[1]) >= Len(fname) + 3
    /\ SubSeq(part[1], Len(part[1]) - Len(fname) - 2, Len(part[1]))
           = <<"alloc_">> \o fname \o <<"(int d, int max_d)", ";">>

ArgumentLists ==
    {"(d + 1, max_d);", "(d, max_d);", "(int d, int max_d)"}

\* C17: every allocator called in a generated body or wrapper has a forward
\* declaration and a definition in the same text, and no call or signature
\* has a star between the allocator name and its argument list.
C17_CalleesDeclaredAndDefined ==
    Generated =>
        /\ \A p \in DOMAIN parts :
              \A callee \in Callees(parts[p]) :
                  /\ \E i \in DOMAIN parts : IsForwardDeclNamed(parts[i], callee)
                  /\ \E j \in DOMAIN parts : IsDefinitionOf(parts[j], callee)
        /\ \A p \in DOMAIN parts :
              \A l \in DOMAIN parts[p] :
                  \A i \in DOMAIN parts[p][l] :
                      parts[p][l][i] \in ArgumentLists =>
                          i > 1 /\ parts[p][l][i - 1] # "*"

\* a text where a body calls the allocator of a pointed-to aggregate, another
\* statement the allocator of an aggregate held by value, and a wrapper
\* delegates
C17_Witness ==
    /\ Generated
    /\ \E p \in DOMAIN parts : \E l \in DOMAIN parts[p] : IsPtrCall(parts[p][l])
    /\ \E p \in DOMAIN parts : \E l \in DOMAIN parts[p] : IsValCall(parts[p][l])
    /\ \E p \in DOMAIN parts : \E l \in DOMAIN parts[p] : IsDelegate(parts[p][l])
    /\ \A p \in DOMAIN parts : \A callee \in Callees(parts[p]) :
          \E j \in DOMAIN parts : IsDefinitionOf(parts[j], callee)


\* C18: after the extraction of any declaration tree no identifier is a key
\* of both name_to_struct and pointer_to_struct.
C18_DisjointKeySets ==
    Extracted =>
        DictKeys(name_to_struct) \cap DictKeys(pointer_to_struct) = {}


\* the field names recorded in a map
FieldNames(d) ==
    UNION {{d[i][2][j][2] : j \in DOMAIN d[i][2]} : i \in DOMAIN d}

\* C19: a field declaration without a name (the padding of a bit-field)
\* contributes no entry: no recorded pair has the empty field_name.
C19_NoUnnamedField ==
    Extracted =>
        /\ "" \notin FieldNames(name_to_struct)
        /\ "" \notin FieldNames(pointer_to_struct)


UnionKey(tag) ==
    <<"union", " ", tag>>

\* C20: a union defined with the tag U is recorded under the key `union U`,
\* and that is the only key when the translation unit defines nothing else.
C20_UnionUnderUnionKey ==
    Extracted =>
        \A b \in SrcDefinitions(src) :
            (b.un /\ b.tag # "") =>
                /\ DictHas(name_to_struct, UnionKey(b.tag))
                /\ (SrcDefinitions(src) = {b} /\ SrcTypedefs(src) = {}) =>
                       AllKeys = {UnionKey(b.tag)}


\* ---------------------------------------------------------------------------
\* The command-line entry points: allocator_gen.py run as a script,
\* header_gen.main and main.main.  A run is a sequence of steps; pc is the
\* step to take, stdout the list of what print() has written, status the
\* exit status ("" while the run goes on).

Programs ==
    {"allocator_gen", "header_gen", "main"}

\* the worst severity among the diagnostics that the parser reports
Severities ==
    {"none", "warning", "error"}

\* what a run finds: enough arguments or not, a compile database that can be
\* read or not, source files that exist or not, the diagnostics of the parse,
\* and maps on which next() of generate_allocators fails or not
Commands ==
    {c \in [prog : Programs, args_ok : BOOLEAN, db_ok : BOOLEAN, files_ok : BOOLEAN,
            severity : Severities, lookup_fails : BOOLEAN] :
        /\ c.prog = "allocator_gen" => c.db_ok
        \* an umbrella file that includes a missing file does not parse
        /\ (c.prog # "allocator_gen" /\ ~c.files_ok) => c.severity = "error"}

\* the steps of each entry point, in program order
Steps(prog) ==
    CASE prog = "allocator_gen" -> <<"args", "extract", "generate", "print">>
      [] prog = "header_gen" -> <<"args", "db", "extract", "generate", "print">>
      [] prog = "main" -> <<"args", "includes", "db", "extract", "sources",
                            "generate", "print", "driver">>

\* the step after step, "exited" after the last one
StepAfter(prog, step) ==
    LET i == CHOOSE k \in DOMAIN Steps(prog) : Steps(prog)[k] = step
    IN  IF i = Len(Steps(prog)) THEN "exited" ELSE Steps(prog)[i + 1]

CInit ==
    /\ cmd \in Commands
    /\ pc = "args"
    /\ stdout = <<>>
    /\ status = ""
    /\ BIdle
    /\ KIdle /\ DIdle /\ FIdle /\ IIdle

\* the run goes on with the next step
Proceed ==
    /\ pc' = StepAfter(cmd.prog, pc)
    /\ status' = IF pc' = "exited" THEN "0" ELSE status

\* sys.exit(1), return 1, or an exception that nothing catches
Fail ==
    /\ pc' = "exited"
    /\ status' = "1"

\* if len(sys.argv) < ...: usage on stderr
CheckArgs ==
    /\ pc = "args"
    /\ IF cmd.args_ok THEN Proceed ELSE Fail
    /\ UNCHANGED <<cmd, stdout, crest>>

\* main.py: for s in sys.argv[2:]: print(f'#include "{s}"')
PrintIncludes ==
    /\ pc = "includes"
    /\ stdout' = Append(stdout, "#include")
    /\ Proceed
    /\ UNCHANGED <<cmd, crest>>

\* compile_db = json.loads(compile_db_path.read_text(...))
ReadCompileDb ==
    /\ pc = "db"
    /\ IF cmd.db_ok THEN Proceed ELSE Fail
    /\ UNCHANGED <<cmd, stdout, crest>>

\* nm, pm = extract_structs(...): the source is a file that exists (the
\* argument when it is a file, the umbrella file just written) or a string;
\* the maps are built whatever the parser has reported
RunExtract ==
    /\ pc = "extract"
    /\ Proceed
    /\ UNCHANGED <<cmd, stdout, crest>>

\* main.py: Path(path).read_text(...) for every argument
ReadSources ==
    /\ pc = "sources"
    /\ IF cmd.files_ok THEN Proceed ELSE Fail
    /\ UNCHANGED <<cmd, stdout, crest>>

\* generate_allocators(nm, pm)
RunGenerate ==
    /\ pc = "generate"
    /\ IF cmd.lookup_fails THEN Fail ELSE Proceed
    /\ UNCHANGED <<cmd, stdout, crest>>

\* print(code)
PrintAllocators ==
    /\ pc = "print"
    /\ stdout' = Append(stdout, "allocators")
    /\ Proceed
    /\ UNCHANGED <<cmd, crest>>

\* main.py: print(generate_main_file(funcs, nm, pm))
PrintDriver ==
    /\ pc = "driver"
    /\ stdout' = Append(stdout, "driver")
    /\ Proceed
    /\ UNCHANGED <<cmd, crest>>

CNext ==
    \/ CheckArgs
    \/ PrintIncludes
    \/ ReadCompileDb
    \/ RunExtract
    \/ ReadSources
    \/ RunGenerate
    \/ PrintAllocators
    \/ PrintDriver

CSpec ==
    CInit /\ [][CNext]_vars

Exited ==
    pc = "exited"

\* C21: when the parser reports a diagnostic of error severity, extraction
\* fails: the run exits with a non-zero status instead of going on with maps
\* built from the partially parsed tree.
C21_ErrorDiagnosticFailsTheRun ==
    /\ (cmd # <<>> /\ cmd.severity = "error" /\ cmd.args_ok /\ cmd.db_ok) =>
          pc \notin {"sources", "generate", "print", "driver"}
    /\ (Exited /\ cmd.severity = "error") => status # "0"

\* C22: a run that ends in a fatal condition has written nothing to standard
\* output.
C22_NothingPrintedBeforeFailure ==
    (Exited /\ status # "0") => stdout = <<>>


\* ---------------------------------------------------------------------------
\* function_call_writer.py: the driver.  The signature table is a dict from
\* (return type, function name) to the list of (type, name) parameters.

\* var_type.replace('const ', '')
RECURSIVE RemoveConst(_)
RemoveConst(str) ==
    IF str = <<>> THEN <<>>
    ELSE IF Len(str) >= 2 /\ str[1] = "const" /\ str[2] = " "
         THEN RemoveConst(SubSeq(str, 3, Len(str)))
         ELSE <<Head(str)>> \o RemoveConst(Tail(str))

\* the test: name in d, on the strings that the tokens spell
InMap(d, name) ==
    \E k \in DictKeys(d) : Text(k) = Text(name)

\* the statements that initialise one parameter
ParamLines(param, nm, pm) ==
    LET clean_type == Strip(RemoveConst(param[1]))
        struct_name == clean_key(clean_type)
        var_name == param[2]
        declared == <<"        ">> \o clean_type \o <<" ", var_name>>
    IN  IF Contains(clean_type, "*")
        THEN IF InMap(nm, struct_name)
             THEN << declared \o <<" = alloc_">> \o struct_name \o <<"(0, 5);">> >>
             ELSE IF ~InMap(pm, struct_name)
             THEN << declared \o <<" = malloc(32);">>,
                     <<"        auto_make_unknown(", var_name, ", 32);">> >>
             ELSE <<>>
        ELSE IF InMap(nm, struct_name)
             THEN << declared \o <<";">>,
                     <<"        ", var_name, " = *alloc_">> \o struct_name \o <<"(0, 5);">> >>
             ELSE IF InMap(pm, struct_name)
             THEN << declared \o <<";">>,
                     <<"        ", var_name, " = alloc_">> \o struct_name \o <<"(0, 5);">> >>
             ELSE IF Text(struct_name) = "bool"
             THEN << declared \o <<";">>,
                     <<"        ", var_name, " = tis_nondet(0, 1);">> >>
             ELSE << declared \o <<";">>,
                     <<"        auto_make_unknown(&", var_name, ", sizeof(">>
                         \o clean_type \o <<"));">> >>

RECURSIVE ParamsLines(_, _, _)
ParamsLines(params, nm, pm) ==
    IF params = <<>> THEN <<>>
    ELSE ParamLines(Head(params), nm, pm) \o ParamsLines(Tail(params), nm, pm)

\* ', '.join(param_names)
RECURSIVE Joined(_)
Joined(param_names) ==
    IF param_names = <<>> THEN <<>>
    ELSE IF Len(param_names) = 1 THEN param_names
    ELSE <<Head(param_names), ", ">> \o Joined(Tail(param_names))

OpenLine ==
    <<"    if(rand()){">>

EndLine ==
    <<"    }\n">>

CallLine(func_name, params) ==
    <<"        ", func_name, "(">> \o Joined([k \in DOMAIN params |-> params[k][2]])
        \o <<");">>

\* the same test, true of no function
IsEntryPointNever(func_name) ==
    FALSE

IsEntryPoint(func_name) ==
    func_name = "main"

\* the statements for one entry of the table
BlockLines(entry, nm, pm) ==
    IF IsEntryPoint(entry[1][2]) THEN <<>>
    ELSE <<OpenLine>> \o ParamsLines(entry[2], nm, pm)
             \o <<CallLine(entry[1][2], entry[2]), EndLine>>

RECURSIVE BlocksLines(_, _, _)
BlocksLines(table, nm, pm) ==
    IF table = <<>> THEN <<>>
    ELSE BlockLines(Head(table), nm, pm) \o BlocksLines(Tail(table), nm, pm)

generate_main_file(table, nm, pm) ==
    << <<"int main(void) {">> >> \o BlocksLines(table, nm, pm)
        \o << <<"    return 0;">>, <<"}">> >>

\* --- the inputs ---

MaxParams ==
    2

\* parameter types as extract_funcs writes them
ParamTypes ==
    { <<"int">>, <<"bool">>, KeyA, KeyA \o <<"*">>, KeyT, KeyT \o <<"*">>,
      <<"pA">>, <<"pA", "*">>, <<"const", " ", "char", "*">> }

ParamNames ==
    <<"a", "b", "c">>

ParamLists ==
    UNION {{[k \in 1 .. n |-> <<t[k], ParamNames[k]>>] : t \in [1 .. n -> ParamTypes]} :
              n \in 0 .. MaxParams}

FuncNames ==
    {"f", "g", "main"}

\* the orders in which the functions of a file may be defined
FuncOrders ==
    UNION {{o \in [1 .. n -> FuncNames] : \A x, y \in 1 .. n : o[x] = o[y] => x = y} :
              n \in 0 .. Cardinality(FuncNames)}

\* f has the parameters drawn, g one pointer, main its usual two
TableEntry(name, params) ==
    CASE name = "f" -> << <<"void", "f">>, params >>
      [] name = "g" -> << <<"int", "g">>, << <<KeyA \o <<"*">>, "p">> >> >>
      [] name = "main" -> << <<"int", "main">>,
                             << <<<<"int">>, "argc">>, <<<<"char", "*">>, "argv">> >> >>

FuncTables ==
    {[k \in DOMAIN o |-> TableEntry(o[k], params)] : o \in FuncOrders, params \in ParamLists}

DInit ==
    /\ pc = "funcs"
    /\ functions \in FuncTables
    /\ output = <<>>
    /\ name_to_struct \in {Entry(KeyA, FieldsLeaf), Entry(KeyA, FieldsLeaf) \o Entry(KeyT, FieldsLeaf)}
    /\ pointer_to_struct \in {<<>>, Entry(<<"pA">>, FieldsLeaf)}
    /\ src = <<>>
    /\ tu = <<>>
    /\ struct_decl_hash_to_identifier = <<>>
    /\ struct_fields_map = <<>>
    /\ parts = <<>>
    /\ call = <<>>
    /\ stack = <<>>
    /\ heap = <<>>
    /\ log = <<>>
    /\ KIdle /\ CIdle /\ FIdle /\ IIdle

\* generated_main = generate_main_file(funcs, nm, pm)
GenerateMain ==
    /\ pc = "funcs"
    /\ output' = generate_main_file(functions, name_to_struct, pointer_to_struct)
    /\ pc' = "driver"
    /\ UNCHANGED <<functions, bvars, kvars, cvars, fvars, ivars>>

DNext ==
    GenerateMain

DSpec ==
    DInit /\ [][DNext]_vars


\* --- the driver, read back from its lines ---

Driver ==
    pc = "driver"

\* the entries of the table that are not the entry point, in table order
Callable ==
    SelectSeq(functions, LAMBDA en : en[1][2] # "main")

BlockStarts ==
    {i \in DOMAIN output : output[i] = OpenLine}

\* the line that opens the k-th block
StartOf(k) ==
    CHOOSE i \in BlockStarts : Cardinality({j \in BlockStarts : j < i}) = k - 1

\* the line that closes the block opened at line i
EndOf(i) ==
    CHOOSE j \in DOMAIN output :
        /\ j > i
        /\ output[j] = EndLine
        /\ \A k \in (i + 1) .. (j - 1) : output[k] # EndLine

\* the line declares a variable of the name v
Declares(line, v) ==
    \E i \in DOMAIN line :
        /\ i >= 4
        /\ i < Len(line)
        /\ line[1] = "        "
        /\ line[i - 1] = " "
        /\ line[i] = v
        /\ line[i + 1] \in {";", " = alloc_", " = malloc(32);"}

WellBlocked ==
    /\ Cardinality(BlockStarts) = Len(Callable)
    /\ Cardinality({i \in DOMAIN output : output[i] = EndLine}) = Len(Callable)

\* C23: in every call block each parameter gets exactly one initialisation
\* strategy, so every name passed in the call is declared earlier in the
\* block, and the call passes all the parameter names in declaration order.
C23_EveryParameterDeclaredOnce ==
    Driver =>
        /\ WellBlocked
        /\ \A k \in DOMAIN Callable :
              LET en == Callable[k]
                  first == StartOf(k)
                  last == EndOf(first) - 1
              IN  /\ output[last] = CallLine(en[1][2], en[2])
                  /\ \A n \in DOMAIN en[2] :
                        Cardinality({l \in (first + 1) .. (last - 1) :
                                        Declares(output[l], en[2][n][2])}) = 1

\* C24: a parameter whose type is a pointer to an aggregate K that is a key
\* of name_to_struct (a tag key as well as a typedef alias) is bound to a call
\* of the allocator of K, alloc_<clean_key(K)>(0, 5), not to a buffer.
C24_PointerToKnownAggregateIsAllocated ==
    Driver =>
        \A k \in DOMAIN Callable :
            \A n \in DOMAIN Callable[k][2] :
                \A K \in DictKeys(name_to_struct) :
                    Callable[k][2][n][1] = K \o <<"*">> =>
                        \E l \in StartOf(k) .. EndOf(StartOf(k)) :
                            output[l] = <<"        ">> \o K \o <<"*", " ", Callable[k][2][n][2],
                                          " = alloc_">> \o clean_key(K) \o <<"(0, 5);">>

\* C25: the driver has exactly one if(rand()){ ... } block for each entry of
\* the table whose function is not main, in table order, and calls main
\* nowhere.
C25_OneBlockPerFunctionButMain ==
    Driver =>
        /\ WellBlocked
        /\ \A k \in DOMAIN Callable :
              LET call_line == output[EndOf(StartOf(k)) - 1]
              IN  /\ call_line[2] = Callable[k][1][2]
                  /\ call_line[3] = "("
        /\ \A l \in DOMAIN output :
              ~(Len(output[l]) >= 3 /\ output[l][2] = "main" /\ output[l][3] = "(")

\* a table where main stands between two other functions
C25_Witness ==
    /\ Driver
    /\ Len(functions) = 3
    /\ functions[2][1][2] = "main"
    /\ Len(functions[1][2]) = 2
    /\ Cardinality(BlockStarts) = 2


\* ---------------------------------------------------------------------------
\* The instances that one allocator call has built.

Returned ==
    pc = "returned"

\* the pointers stored in initialised fields: <<holder, field index>>
RefFields ==
    {hf \in (DOMAIN heap) \X (1 .. 9) :
        /\ hf[2] <= Len(heap[hf[1]].fields)
        /\ heap[hf[1]].fields[hf[2]][2].how = "ref"}

RefTarget(hf) ==
    heap[hf[1]].fields[hf[2]][2].obj

\* the completed calls that created the object o
CreatorsOf(o) ==
    {a \in DOMAIN log : log[a].out = o}

AliasTypedFields(K) ==
    LET fields == DictGet(name_to_struct, K)
    IN  {f \in DOMAIN fields : fields[f][1] \in DictKeys(pointer_to_struct)}

\* C27: a field whose type string is a key of pointer_to_struct (`pA p;`
\* with `typedef struct A* pA;`) is initialised like a `struct A*` field:
\* under the depth guard the allocator of its aggregate assigns it the
\* result of a recursive allocator call at d + 1.
C27_PointerTypedefFieldIsAllocated ==
    Generated =>
        \A K \in DictKeys(name_to_struct) :
            \A f \in AliasTypedFields(K) :
                LET field == DictGet(name_to_struct, K)[f]
                IN  \E l \in DOMAIN ValueAllocator(K) :
                        /\ Len(ValueAllocator(K)[l]) >= 2
                        /\ Tail(ValueAllocator(K)[l])
                              = PtrCallLine(field[2], clean_key(field[1]))

\* ---------------------------------------------------------------------------
\* The order of emission against the order of the source
\* ---------------------------------------------------------------------------

RECURSIVE BaseTagSeq(_)
RECURSIVE FieldsTagSeq(_, _)
\* the tags that a type specifier defines, in the order of the text: an
\* enclosing aggregate before the aggregates nested in it
BaseTagSeq(b) ==
    IF b.b = "inline"
    THEN (IF b.tag = "" THEN <<>> ELSE <<b.tag>>) \o FieldsTagSeq(b.fields, 1)
    ELSE <<>>

FieldsTagSeq(fields, i) ==
    IF i > Len(fields) THEN <<>>
    ELSE BaseTagSeq(fields[i].type.base) \o FieldsTagSeq(fields, i + 1)

RECURSIVE TagEntries(_, _)
\* the tag keys of the declarations i, i + 1, ... of s, as entries of
\* name_to_struct
TagEntries(s, i) ==
    IF i > Len(s) THEN <<>>
    ELSE LET tags == BaseTagSeq(ItemBase(s[i]))
         IN  [t \in DOMAIN tags |-> <<StructKey(tags[t]), TRUE>>]
                 \o TagEntries(s, i + 1)

RECURSIVE AliasEntries(_, _, _)
\* the typedef names of the declarations i, i + 1, ... of s that stand
\* depth pointer levels above an aggregate defined in s
AliasEntries(s, i, depth) ==
    IF i > Len(s) THEN <<>>
    ELSE (IF /\ s[i].it \in {"typedef", "function"}
             /\ SrcDepth(s, s[i].type) = depth
             /\ TargetDefined(s, s[i].type)
          THEN << << <<s[i].name>>, depth = 0 >> >>
          ELSE <<>>)
         \o AliasEntries(s, i + 1, depth)

RECURSIVE FirstOccurrences(_)
\* a sequence without the repetitions of an earlier element
FirstOccurrences(seq) ==
    IF seq = <<>> THEN <<>>
    ELSE LET front == FirstOccurrences(SubSeq(seq, 1, Len(seq) - 1))
             last == seq[Len(seq)]
         IN  IF \E i \in DOMAIN front : front[i] = last
             THEN front ELSE Append(front, last)

\* the entries in the order the text emits them: the tag keys in the order
\* of their definitions, then the value aliases in the order of their
\* typedefs, then the pointer aliases in the order of their typedefs
ExpectedEmission(s) ==
    FirstOccurrences(TagEntries(s, 1) \o AliasEntries(s, 1, 0))
        \o FirstOccurrences(AliasEntries(s, 1, 1))

\* the declarations of s that declare the key of an entry
DeclItems(s, en) ==
    {i \in DOMAIN s :
        \/ \E t \in BaseInlineTags(ItemBase(s[i])) : en[1] = StructKey(t)
        \/ s[i].it \in {"typedef", "function"} /\ en[1] = <<s[i].name>>}

\* en1 is emitted before en2 although the source declares it later
OutOfSourceOrder(en1, en2) ==
    /\ \E p \in ForwardDeclsOf(en1), q \in ForwardDeclsOf(en2) : p < q
    /\ \A i \in DeclItems(src, en1), j \in DeclItems(src, en2) : i > j

\* C28 as stated: the allocators appear in the order in which the
\* declarations of their keys occur in the source.
C28_EmittedInSourceOrder ==
    Generated =>
        \A en1, en2 \in Entries : ~OutOfSourceOrder(en1, en2)

\* C28: the forward declarations, and after them the definitions, come in
\* this order: first the tag keys in the order of the aggregate definitions
\* (an enclosing aggregate before its nested ones), then the value-typed
\* typedef aliases in the order of their typedefs, then the pointer-typed
\* typedef aliases in the order of their typedefs.
C28_EmittedTagsThenAliasesThenPointers ==
    Generated =>
        LET ex == ExpectedEmission(src)
            n == Len(ex)
        IN  /\ Len(parts) = 1 + 2 * n
            /\ \A i \in 1 .. n :
                  /\ IsForwardDeclOf(parts[1 + i], ex[i][1], ex[i][2])
                  /\ IsDefinitionOfKey(parts[1 + n + i], ex[i][1], ex[i][2])

\* a value alias declared before the tagged aggregate and a pointer alias
\* declared last: three entries, emitted tag key first
C28_Witness ==
    /\ Generated
    /\ Cardinality(Entries) = 3
    /\ DictKeys(pointer_to_struct) # {}
    /\ \E en1, en2 \in Entries : OutOfSourceOrder(en1, en2)

----------------------------------------------------------------------------
(* The flags taken from the compilation database: main.py and header_gen.py *)
(* A token is a sequence of pieces: <<"-I">>, <<"-I", "a">> for -Ia,        *)
(* <<"/", "s">> for the absolute path /s.                                   *)

MaxTokens ==
    4

_PP_PREFIXES ==
    {"-I", "-isystem", "-iquote", "-idirafter", "-D", "-U", "-include",
     "-imacros", "-iprefix", "-iwithprefix", "-iwithprefixbefore",
     "-nostdinc", "-f", "-m", "-std=", "-x", "-Xclang"}

_PP_PREFIXES_REQUIRING_SEP_ARG ==
    {"-I", "-isystem", "-iquote", "-idirafter", "-D", "-U", "-include",
     "-imacros", "-iprefix", "-iwithprefix", "-iwithprefixbefore",
     "-x", "-Xclang"}

\* header_gen.py:61-65, the options it reads a separate argument for
HeaderGenSepArg ==
    {"-I", "-isystem", "-iquote", "-idirafter", "-imacros", "-include",
     "-U", "-D", "-iprefix", "-iwithprefix", "-iwithprefixbefore"}

\* any(tok.startswith(pref) for pref in _PP_PREFIXES)
StartsWithPrefix(tok) ==
    tok # <<>> /\ tok[1] \in _PP_PREFIXES

\* tok == opt for one of the options of the set
IsOption(tok, options) ==
    Len(tok) = 1 /\ tok[1] \in options

\* main.py:70-76 and 85-90: a relative path is resolved against the
\* directory of the entry
ResolvePath(base_directory, path) ==
    IF path # <<>> /\ path[1] \in {"/", "$"}
    THEN path
    ELSE base_directory \o <<"/">> \o path

RECURSIVE ExtractPpMain(_, _, _, _)
\* main.py, _extract_pp_options: the loop from token i on, pp so far
ExtractPpMain(tokens, i, base_directory, pp) ==
    IF i > Len(tokens) THEN pp
    ELSE LET tok == tokens[i]
         IN  IF tok = <<"-I">>
             THEN IF i + 1 > Len(tokens)
                  THEN Append(pp, tok)
                  ELSE ExtractPpMain(tokens, i + 2, base_directory,
                           pp \o <<tok, ResolvePath(base_directory, tokens[i + 1])>>)
             ELSE IF tok # <<>> /\ tok[1] = "-I" /\ Len(tok) > 1
             THEN ExtractPpMain(tokens, i + 1, base_directory,
                      Append(pp, <<"-I">> \o ResolvePath(base_directory, Tail(tok))))
             ELSE IF StartsWithPrefix(tok)
             THEN IF IsOption(tok, _PP_PREFIXES_REQUIRING_SEP_ARG)
                  THEN IF i + 1 > Len(tokens)
                       THEN Append(pp, tok)
                       ELSE ExtractPpMain(tokens, i + 2, base_directory,
                                pp \o <<tok, tokens[i + 1]>>)
                  ELSE ExtractPpMain(tokens, i + 1, base_directory, Append(pp, tok))
             ELSE ExtractPpMain(tokens, i + 1, base_directory, pp)

RECURSIVE ExtractPpHeaderGen(_, _, _)
\* header_gen.py, _extract_pp_options
ExtractPpHeaderGen(tokens, i, pp) ==
    IF i > Len(tokens) THEN pp
    ELSE LET tok == tokens[i]
         IN  IF StartsWithPrefix(tok)
             THEN IF IsOption(tok, HeaderGenSepArg)
                  THEN IF i + 1 > Len(tokens)
                       THEN Append(pp, tok)
                       ELSE ExtractPpHeaderGen(tokens, i + 2, pp \o <<tok, tokens[i + 1]>>)
                  ELSE ExtractPpHeaderGen(tokens, i + 1, Append(pp, tok))
             ELSE ExtractPpHeaderGen(tokens, i + 1, pp)

\* the tokens of an entry: the list "arguments" as it stands, or the string
\* "command" split into its words, the compiler dropped
EntryTokens(entry) ==
    IF entry.form = "arguments" THEN entry.tokens ELSE Tail(entry.tokens)

RECURSIVE GatherFlags(_, _, _)
\* the loop over the entries of the database; entries of other files are
\* skipped
GatherFlags(prog, db, i) ==
    IF i > Len(db) THEN <<>>
    ELSE (IF ~db[i].listed THEN <<>>
          ELSE IF prog = "main"
          THEN ExtractPpMain(EntryTokens(db[i]), 1, db[i].directory, <<>>)
          ELSE ExtractPpHeaderGen(EntryTokens(db[i]), 1, <<>>))
         \o GatherFlags(prog, db, i + 1)

RECURSIVE Deduplicate(_, _)
\* [arg for arg in clang_arguments if not (arg in seen or seen.add(arg))]
Deduplicate(args, seen) ==
    IF args = <<>> THEN <<>>
    ELSE IF Head(args) \in seen
         THEN Deduplicate(Tail(args), seen)
         ELSE <<Head(args)>> \o Deduplicate(Tail(args), seen \cup {Head(args)})

\* the words of a compile command after the compiler
FlagTokens ==
    {<<"-I">>, <<"-D">>, <<"a">>, <<"b">>, <<"-I", "/", "s">>}

TokenLists(n) ==
    UNION {[1 .. k -> FlagTokens] : k \in 0 .. n}

DbEntries(n) ==
    {[listed |-> l, directory |-> <<"/", "d">>, form |-> f,
      tokens |-> <<<<"cc">>>> \o t] :
        l \in BOOLEAN, f \in {"arguments", "command"}, t \in TokenLists(n)}

\* databases of one or two entries with at most MaxTokens words in all
CompileDbs ==
    {<<e>> : e \in DbEntries(MaxTokens)}
        \cup {<<e1, e2>> : e1 \in DbEntries(1), e2 \in DbEntries(MaxTokens - 1)}

\* the variables that the gathering of the flags leaves alone
frest == <<bvars, kvars, cvars, dvars, ivars>>

FInit ==
    /\ compile_db \in CompileDbs
    /\ clang_arguments = <<>>
    /\ pc = "db"
    /\ BIdle
    /\ KIdle /\ CIdle /\ DIdle /\ IIdle

\* main.py:144-168
MainFlags ==
    /\ pc = "db"
    /\ clang_arguments' = Deduplicate(GatherFlags("main", compile_db, 1), {})
    /\ pc' = "main"
    /\ UNCHANGED <<frest, compile_db>>

\* header_gen.py:99-121
HeaderGenFlags ==
    /\ pc = "db"
    /\ clang_arguments' = Deduplicate(GatherFlags("header_gen", compile_db, 1), {})
    /\ pc' = "header_gen"
    /\ UNCHANGED <<frest, compile_db>>

FNext ==
    \/ MainFlags
    \/ HeaderGenFlags

FSpec ==
    FInit /\ [][FNext]_vars

\* the positions of the words of a command that are options with a
\* separate argument, read from position i on
RECURSIVE OptionPositions(_, _)
OptionPositions(tokens, i) ==
    IF i >= Len(tokens) THEN {}
    ELSE IF IsOption(tokens[i], HeaderGenSepArg)
         THEN {i} \cup OptionPositions(tokens, i + 2)
         ELSE OptionPositions(tokens, i + 1)

\* the argument as the program forwards it
ForwardedArgument(entry, opt, arg) ==
    IF pc = "main" /\ opt = <<"-I">>
    THEN ResolvePath(entry.directory, arg)
    ELSE arg

\* C29: in the list of flags forwarded after the filtering and the removal
\* of duplicates, every option that takes a separate argument is
\* immediately followed by the argument it had in the command (a word that
\* is not an option itself), also when the option token is repeated
\* (`-I a -I b`) or comes from several entries.
C29_OptionsKeepTheirArguments ==
    pc \in {"main", "header_gen"} =>
        \A e \in DOMAIN compile_db :
            compile_db[e].listed =>
                LET tokens == EntryTokens(compile_db[e])
                IN  \A i \in OptionPositions(tokens, 1) :
                      ~StartsWithPrefix(tokens[i + 1]) =>
                        \E j \in 1 .. (Len(clang_arguments) - 1) :
                            /\ clang_arguments[j] = tokens[i]
                            /\ clang_arguments[j + 1] =
                                  ForwardedArgument(compile_db[e], tokens[i],
                                                    tokens[i + 1])

----------------------------------------------------------------------------
(* code_cleaner.py: CodeCleaner.clean_file and the files it includes *)

\* the longest list of #include directives of a file
MaxIncludes ==
    2

\* the depth of calls at which the interpreter raises RecursionError
RecursionLimit ==
    4

\* the files of the directory; c.h includes nothing
Files ==
    {"a.h", "b.h", "c.h"}

\* the names that an #include directive may give; x.h does not exist
IncludeNames ==
    Files \cup {"x.h"}

IncludeLists ==
    UNION {[1 .. n -> IncludeNames] : n \in 0 .. MaxIncludes}

IncludeGraphs ==
    {[f \in Files |-> IF f = "c.h" THEN <<>> ELSE g[f]] :
        g \in [{"a.h", "b.h"} -> IncludeLists]}

\* a call of clean_file on input_path whose re.sub stands at match number i
CleanFrame(input_path) ==
    [input_path |-> input_path, i |-> 1]

\* the variables that the cleaner leaves alone
irest == <<bvars, kvars, cvars, dvars, fvars>>

\* cleaner = CodeCleaner()
IInit ==
    /\ includes \in IncludeGraphs
    /\ clean_stack = <<>>
    /\ processed_includes = {}
    /\ cleaned = [f \in Files |-> 0]
    /\ pc = "cleaner"
    /\ BIdle
    /\ KIdle /\ CIdle /\ DIdle /\ FIdle

\* the frame on top of the stack and the include its re.sub stands at
TopFrame ==
    clean_stack[Len(clean_stack)]

HasInclude ==
    /\ pc = "cleaning"
    /\ clean_stack # <<>>
    /\ TopFrame.i <= Len(includes[TopFrame.input_path])

IncludePath ==
    includes[TopFrame.input_path][TopFrame.i]

\* code_cleaner.py:104 and 109, the include is left as it stands
IsKept(include_path) ==
    \/ include_path \in processed_includes
    \/ include_path \notin Files

NextMatch(frames) ==
    [frames EXCEPT ![Len(frames)].i = @ + 1]

\* cleaner.clean_file(Path(input_path), Path(output_path))
CleanFile ==
    /\ pc = "cleaner"
    /\ \E input_path \in Files :
          /\ clean_stack' = <<CleanFrame(input_path)>>
          /\ cleaned' = [cleaned EXCEPT ![input_path] = @ + 1]
    /\ pc' = "cleaning"
    /\ UNCHANGED <<irest, includes, processed_includes>>

\* process_include returns the directive unchanged
KeepInclude ==
    /\ HasInclude
    /\ IsKept(IncludePath)
    /\ clean_stack' = NextMatch(clean_stack)
    /\ UNCHANGED <<irest, pc, includes, processed_includes, cleaned>>

\* process_include calls self.clean_file(include_file, output_file)
CleanInclude ==
    /\ HasInclude
    /\ ~IsKept(IncludePath)
    /\ Len(clean_stack) < RecursionLimit
    /\ clean_stack' = Append(clean_stack, CleanFrame(IncludePath))
    /\ cleaned' = [cleaned EXCEPT ![IncludePath] = @ + 1]
    /\ UNCHANGED <<irest, pc, includes, processed_includes>>

\* the same call when the stack of the interpreter is full
RaiseRecursionError ==
    /\ HasInclude
    /\ ~IsKept(IncludePath)
    /\ Len(clean_stack) = RecursionLimit
    /\ clean_stack' = <<>>
    /\ pc' = "recursion_error"
    /\ UNCHANGED <<irest, includes, processed_includes, cleaned>>

\* clean_file returns; its caller, if any, adds the include to
\* processed_includes and goes on with the next match
ReturnFromCleanFile ==
    /\ pc = "cleaning"
    /\ clean_stack # <<>>
    /\ TopFrame.i > Len(includes[TopFrame.input_path])
    /\ LET callers == SubSeq(clean_stack, 1, Len(clean_stack) - 1)
       IN  IF callers = <<>>
           THEN /\ clean_stack' = <<>>
                /\ pc' = "clean_done"
                /\ UNCHANGED processed_includes
           ELSE /\ clean_stack' = NextMatch(callers)
                /\ processed_includes' =
                       processed_includes \cup {TopFrame.input_path}
                /\ UNCHANGED pc
    /\ UNCHANGED <<irest, includes, cleaned>>

INext ==
    \/ CleanFile
    \/ KeepInclude
    \/ CleanInclude
    \/ RaiseRecursionError
    \/ ReturnFromCleanFile

ISpec ==
    IInit /\ [][INext]_vars

\* C30: clean_file ends normally for every set of files, include cycles and
\* a file that includes itself among them, and no file is cleaned more than
\* once.
C30_CleanerEndsAndCleansOnce ==
    /\ pc # "recursion_error"
    /\ cleaned # <<>> => \A f \in Files : cleaned[f] <= 1

====
